---- MODULE Spec2Model ----
(***************************************************************************)
(* Model of the travel-assistant handlers.  This part models               *)
(* parse_ideas_response (src/src/lambda_ideation/app.py), the line-oriented *)
(* parser that turns the text of the ideation model into idea records.      *)
(*                                                                         *)
(* Text is modelled as a sequence of one-character strings, so that        *)
(* strip, split, startswith, lower and slicing are computed character by   *)
(* character as Python computes them.                                       *)
(***************************************************************************)
EXTENDS Naturals, Integers, Sequences, FiniteSets, TLC

(***************************************************************************)
(* Python str primitives used by the parser.                               *)
(***************************************************************************)

\* The characters str.strip() removes (the ASCII whitespace that can occur
\* in the modelled texts).
Whitespace == {" ", "\t", "\n", "\r"}

MinOf(S) == CHOOSE k \in S : \A m \in S : k <= m

MaxOf(S) == CHOOSE k \in S : \A m \in S : k >= m

\* s.strip()
Strip(s) ==
    LET keep == {k \in 1..Len(s) : s[k] \notin Whitespace}
    IN  IF keep = {} THEN <<>> ELSE SubSeq(s, MinOf(keep), MaxOf(keep))

\* s.split(sep): always at least one piece, the pieces may be empty
RECURSIVE Split(_, _)
Split(s, sep) ==
    LET at == {k \in 1..Len(s) : s[k] = sep}
    IN  IF at = {} THEN <<s>>
        ELSE <<SubSeq(s, 1, MinOf(at) - 1)>>
             \o Split(SubSeq(s, MinOf(at) + 1, Len(s)), sep)

\* s.split(sep, 1): one piece when sep is absent, else the text before the
\* first sep and everything after it
SplitOnce(s, sep) ==
    LET at == {k \in 1..Len(s) : s[k] = sep}
    IN  IF at = {} THEN <<s>>
        ELSE <<SubSeq(s, 1, MinOf(at) - 1), SubSeq(s, MinOf(at) + 1, Len(s))>>

\* s.startswith(p)
StartsWith(s, p) == Len(s) >= Len(p) /\ SubSeq(s, 1, Len(p)) = p

\* sep in s
Contains(s, sep) == \E k \in 1..Len(s) : s[k] = sep

UpperCase == <<"A", "B", "C", "D", "E", "F", "G", "H", "I", "J", "K", "L", "M", "N", "O", "P", "Q", "R", "S", "T", "U", "V", "W", "X", "Y", "Z">>

LowerCase == <<"a", "b", "c", "d", "e", "f", "g", "h", "i", "j", "k", "l", "m", "n", "o", "p", "q", "r", "s", "t", "u", "v", "w", "x", "y", "z">>

LowerChar(ch) ==
    IF \E k \in 1..Len(UpperCase) : UpperCase[k] = ch
    THEN LowerCase[CHOOSE k \in 1..Len(UpperCase) : UpperCase[k] = ch]
    ELSE ch

\* s.lower()
Lower(s) == [k \in 1..Len(s) |-> LowerChar(s[k])]

(***************************************************************************)
(* Literals of parse_ideas_response.                                       *)
(***************************************************************************)

NL == "\n"

Colon == ":"

Dash == <<"-">>

\* ('1.', '2.', '3.', '4.', '5.')
WidePrefixes == {<<d, ".">> : d \in {"1", "2", "3", "4", "5", "6", "7", "8", "9"}}

TitlePrefixes == {<<d, ".">> : d \in {"1", "2", "3", "4", "5"}}

DescriptionLabel == <<"d", "e", "s", "c", "r", "i", "p", "t", "i", "o", "n", ":">>

HighlightLabelColon == <<"h", "i", "g", "h", "l", "i", "g", "h", "t", ":">>

HighlightLabel == <<"h", "i", "g", "h", "l", "i", "g", "h", "t">>

DurationLabel == <<"d", "u", "r", "a", "t", "i", "o", "n", ":">>

FallbackTitle == <<"T", "r", "a", "v", "e", "l", " ", "R", "e", "c", "o", "m", "m", "e", "n", "d", "a", "t", "i", "o", "n", "s">>

\* current_idea = None; a present idea is the one-element sequence <<idea>>
None == <<>>

Some(idea) == <<idea>>

\* The dict literal of lines 265-270
NewIdea(title) ==
    [title |-> title, description |-> <<>>, highlights |-> <<>>, duration |-> <<>>]

\* The record returned when nothing was parsed (lines 295-300, 307-312)
FallbackRecordRaw(response) ==
    [title |-> FallbackTitle, description |-> response,
     highlights |-> <<>>, duration |-> <<>>]

FallbackRecord(response) ==
    [title |-> FallbackTitle, description |-> Strip(response),
     highlights |-> <<>>, duration |-> <<>>]

(***************************************************************************)
(* The body of the loop, one operator per branch.                          *)
(***************************************************************************)

\* line.startswith(('1.', ..., '5.')) and ':' in line
IsTitleLineWide(line) ==
    /\ \E p \in WidePrefixes : StartsWith(line, p)
    /\ Contains(line, Colon)

IsTitleLine(line) ==
    /\ \E p \in TitlePrefixes : StartsWith(line, p)
    /\ Contains(line, Colon)

\* current_idea and current_idea.get('title')
HasTitleAlways(current_idea) == current_idea # None

HasTitle(current_idea) == current_idea # None /\ current_idea[1].title # <<>>

\* ideas.append(idea)
AppendIdeaFront(ideas, idea) == <<idea>> \o ideas

AppendIdea(ideas, idea) == Append(ideas, idea)

\* title_parts[1].strip() if len(title_parts) > 1 else line
TitleOfLastColon(line) ==
    LET title_parts == Split(line, Colon)
    IN  IF Len(title_parts) > 1 THEN Strip(title_parts[Len(title_parts)]) ELSE line

TitleOf(line) ==
    LET title_parts == SplitOnce(line, Colon)
    IN  IF Len(title_parts) > 1 THEN Strip(title_parts[2]) ELSE line

\* The branch of the if/elif chain (lines 254-287) a stripped line takes
BranchContinueAlways(current_idea, line) ==
    IF line = <<>> THEN "skip"
    ELSE IF IsTitleLine(line) THEN "open"
    ELSE IF current_idea = None THEN "nocurrent"
    ELSE IF StartsWith(Lower(line), DescriptionLabel) THEN "description"
    ELSE IF StartsWith(Lower(line), HighlightLabel) THEN "highlight"
    ELSE IF StartsWith(Lower(line), DurationLabel) THEN "duration"
    ELSE IF ~StartsWith(line, Dash) THEN "continuation"
    ELSE IF StartsWith(line, Dash) THEN "bullet"
    ELSE "drop"

BranchBulletLate(current_idea, line) ==
    IF line = <<>> THEN "skip"
    ELSE IF IsTitleLine(line) THEN "open"
    ELSE IF current_idea = None THEN "nocurrent"
    ELSE IF StartsWith(Lower(line), DescriptionLabel) THEN "description"
    ELSE IF StartsWith(Lower(line), HighlightLabel) THEN "highlight"
    ELSE IF StartsWith(Lower(line), DurationLabel) THEN "duration"
    ELSE IF current_idea[1].description # <<>> THEN "continuation"
    ELSE IF StartsWith(line, Dash) THEN "bullet"
    ELSE "drop"

Branch(current_idea, line) ==
    IF line = <<>> THEN "skip"
    ELSE IF IsTitleLine(line) THEN "open"
    ELSE IF current_idea = None THEN "nocurrent"
    ELSE IF StartsWith(Lower(line), DescriptionLabel) THEN "description"
    ELSE IF StartsWith(Lower(line), HighlightLabel) THEN "highlight"
    ELSE IF StartsWith(Lower(line), DurationLabel) THEN "duration"
    ELSE IF current_idea[1].description # <<>> /\ ~StartsWith(line, Dash)
         THEN "continuation"
    ELSE IF StartsWith(line, Dash) THEN "bullet"
    ELSE "drop"

\* ideas after the line: only an opening line appends (lines 260-261)
IdeasAfter(ideas, current_idea, line) ==
    IF Branch(current_idea, line) = "open" /\ HasTitle(current_idea)
    THEN AppendIdea(ideas, current_idea[1])
    ELSE ideas

\* current_idea after the line, with one slip of the code: "append" makes a
\* description: line extend the description, "nospace" joins continuation
\* lines without the space, "noreset" opens a block on the previous idea
CurrentAfterWith(current_idea, line, slip) ==
    LET b == Branch(current_idea, line)
        cur == current_idea[1]
    IN  CASE b = "open" ->
                IF slip = "noreset" /\ current_idea # None
                THEN Some([cur EXCEPT !.title = TitleOf(line)])
                ELSE Some(NewIdea(TitleOf(line)))
          [] b = "description" ->
                IF slip = "append"
                THEN Some([cur EXCEPT !.description =
                              @ \o Strip(SplitOnce(line, Colon)[2])])
                ELSE Some([cur EXCEPT !.description = Strip(SplitOnce(line, Colon)[2])])
          [] b = "highlight" ->
                Some([cur EXCEPT !.highlights =
                        Append(@, IF Contains(line, Colon)
                                  THEN Strip(SplitOnce(line, Colon)[2])
                                  ELSE line)])
          [] b = "duration" ->
                Some([cur EXCEPT !.duration = Strip(SplitOnce(line, Colon)[2])])
          [] b = "continuation" ->
                IF slip = "nospace"
                THEN Some([cur EXCEPT !.description = @ \o line])
                ELSE Some([cur EXCEPT !.description = @ \o <<" ">> \o line])
          [] b = "bullet" ->
                IF slip = "keepdash"
                THEN Some([cur EXCEPT !.highlights = Append(@, line)])
                ELSE Some([cur EXCEPT !.highlights =
                             Append(@, Strip(SubSeq(line, 2, Len(line))))])
          [] OTHER -> current_idea

CurrentAfterKeepDash(current_idea, line) ==
    CurrentAfterWith(current_idea, line, "keepdash")

CurrentAfterAppending(current_idea, line) ==
    CurrentAfterWith(current_idea, line, "append")

CurrentAfterNoSpace(current_idea, line) ==
    CurrentAfterWith(current_idea, line, "nospace")

CurrentAfterNoReset(current_idea, line) ==
    CurrentAfterWith(current_idea, line, "noreset")

\* current_idea after the line (lines 264-287)
CurrentAfter(current_idea, line) ==
    LET b == Branch(current_idea, line)
        cur == current_idea[1]
    IN  CASE b = "open" -> Some(NewIdea(TitleOf(line)))
          [] b = "description" ->
                Some([cur EXCEPT !.description = Strip(SplitOnce(line, Colon)[2])])
          [] b = "highlight" ->
                Some([cur EXCEPT !.highlights =
                        Append(@, IF Contains(line, Colon)
                                  THEN Strip(SplitOnce(line, Colon)[2])
                                  ELSE line)])
          [] b = "duration" ->
                Some([cur EXCEPT !.duration = Strip(SplitOnce(line, Colon)[2])])
          [] b = "continuation" ->
                Some([cur EXCEPT !.description = @ \o <<" ">> \o line])
          [] b = "bullet" ->
                Some([cur EXCEPT !.highlights =
                        Append(@, Strip(SubSeq(line, 2, Len(line))))])
          [] OTHER -> current_idea

\* ideas after the loop (lines 290-291)
IdeasAtEndForgetLast(ideas, current_idea) == ideas

IdeasAtEnd(ideas, current_idea) ==
    IF HasTitle(current_idea) THEN AppendIdea(ideas, current_idea[1]) ELSE ideas

\* The value returned by the try body (lines 294-302)
ReturnValueNoFallback(ideas, response) == ideas

ReturnValue(ideas, response) ==
    IF ideas = <<>> THEN <<FallbackRecord(response)>> ELSE ideas

(***************************************************************************)
(* parse_ideas_response run on a whole text: the loop folded over the      *)
(* lines of response.strip().split('\n').                                  *)
(***************************************************************************)

RECURSIVE RunLines(_, _, _, _)
RunLines(ideas, current_idea, ls, k) ==
    IF k > Len(ls) THEN IdeasAtEnd(ideas, current_idea)
    ELSE RunLines(IdeasAfter(ideas, current_idea, Strip(ls[k])),
                  CurrentAfter(current_idea, Strip(ls[k])), ls, k + 1)

ParseIdeas(response) ==
    ReturnValue(RunLines(<<>>, None, Split(Strip(response), NL), 1), response)

(***************************************************************************)
(* Input texts.                                                            *)
(***************************************************************************)

\* Longest text built from pool lines, in lines
MaxLines == 3

\* Longest text built character by character
MaxChars == 4

\* Calls made in all by the concurrent callers
MaxCalls == 3

\* Concurrent callers
Calls == {1, 2}

LinePool ==
    { <<"1", ".", " ", "A", ":", " ", "T">>,
      <<"2", ".", "B", ":">>,
      <<" ", "3", ".", "C", ":", " ", "U", ":", "v", " ">>,
      <<"1", ".", "D", "e", "s", "c", "r", "i", "p", "t", "i", "o", "n", ":", " ", "x">>,
      <<"1", ".", " ", "G", "o">>,
      <<"6", ".", " ", "X", ":", " ", "y">>,
      <<"D", "e", "s", "c", "r", "i", "p", "t", "i", "o", "n", ":", " ", "d">>,
      <<"d", "e", "s", "c", "r", "i", "p", "t", "i", "o", "n", ":", "e">>,
      <<"H", "i", "g", "h", "l", "i", "g", "h", "t", ":", " ", "h">>,
      <<"h", "i", "g", "h", "l", "i", "g", "h", "t", "s">>,
      <<"D", "u", "r", "a", "t", "i", "o", "n", ":", " ", "3">>,
      <<"-", " ", "b">>,
      <<"n", "o", "t", "e">>,
      <<>> }

Alphabet == {"1", ".", ":", "a", " ", "\n"}

RECURSIVE JoinLines(_)
JoinLines(ls) ==
    IF ls = <<>> THEN <<>>
    ELSE IF Len(ls) = 1 THEN ls[1]
    ELSE ls[1] \o <<NL>> \o JoinLines(Tail(ls))

LineInputs == {JoinLines(ls) : ls \in UNION {[1..n -> LinePool] : n \in 0..MaxLines}}

CharInputs == UNION {[1..n -> Alphabet] : n \in 0..MaxChars}

ExampleLines ==
    << <<"1", ".", " ", "C", "o", "a", "s", "t", "a", "l", " ", "R", "o", "a", "d", " ", "T", "r", "i", "p", ":", " ", "S", "c", "e", "n", "i", "c", " ", "d", "r", "i", "v", "e", "s">>,
       <<"D", "e", "s", "c", "r", "i", "p", "t", "i", "o", "n", ":", " ", "D", "r", "i", "v", "e", " ", "a", "l", "o", "n", "g", " ", "t", "h", "e", " ", "c", "o", "a", "s", "t", " ", "v", "i", "s", "i", "t", "i", "n", "g", " ", "s", "m", "a", "l", "l", " ", "t", "o", "w", "n", "s", ".">>,
       <<"H", "i", "g", "h", "l", "i", "g", "h", "t", ":", " ", "L", "i", "g", "h", "t", "h", "o", "u", "s", "e", " ", "a", "t", " ", "s", "u", "n", "s", "e", "t">>,
       <<"-", " ", "L", "o", "c", "a", "l", " ", "s", "e", "a", "f", "o", "o", "d", " ", "t", "a", "s", "t", "i", "n", "g">>,
       <<"D", "u", "r", "a", "t", "i", "o", "n", ":", " ", "5", " ", "d", "a", "y", "s">>,
       <<"2", ".", " ", "M", "o", "u", "n", "t", "a", "i", "n", " ", "R", "e", "t", "r", "e", "a", "t", ":", " ", "P", "e", "a", "c", "e", "f", "u", "l", " ", "c", "a", "b", "i", "n", "s">>,
       <<"D", "e", "s", "c", "r", "i", "p", "t", "i", "o", "n", ":", " ", "S", "t", "a", "y", " ", "i", "n", " ", "a", " ", "s", "e", "c", "l", "u", "d", "e", "d", " ", "c", "a", "b", "i", "n", ".">>,
       <<"D", "u", "r", "a", "t", "i", "o", "n", ":", " ", "3", " ", "d", "a", "y", "s">> >>

Example == JoinLines(ExampleLines)

\* Longer texts: blocks with repeated labels, continuation lines and a
\* block whose title is empty
BlockTexts ==
    { JoinLines(<< <<"1", ".", " ", "A", ":", " ", "T">>,
                  <<"D", "e", "s", "c", "r", "i", "p", "t", "i", "o", "n", ":", " ", "d">>,
                  <<"n", "o", "t", "e">>,
                  <<"6", ".", " ", "X", ":", " ", "y">>,
                  <<"d", "e", "s", "c", "r", "i", "p", "t", "i", "o", "n", ":", "e">>,
                  <<"m", "o", "r", "e">> >>),
      JoinLines(<< <<"1", ".", " ", "A", ":", " ", "T">>,
                  <<"n", "o", "t", "e">>,
                  <<"D", "e", "s", "c", "r", "i", "p", "t", "i", "o", "n", ":", " ", "d">>,
                  <<"-", " ", "b">>,
                  <<"H", "i", "g", "h", "l", "i", "g", "h", "t", ":", " ", "h">>,
                  <<"h", "i", "g", "h", "l", "i", "g", "h", "t", "s">>,
                  <<"n", "o", "t", "e">>,
                  <<"D", "u", "r", "a", "t", "i", "o", "n", ":", " ", "3">>,
                  <<"2", ".", "B", ":">>,
                  <<"D", "e", "s", "c", "r", "i", "p", "t", "i", "o", "n", ":", " ", "d">>,
                  <<"-", " ", "b">>,
                  <<" ", "3", ".", "C", ":", " ", "U", ":", "v", " ">>,
                  <<"-", " ", "c">> >>),
      JoinLines(<< <<"i", "n", "t", "r", "o">>,
                  <<"-", " ", "b">>,
                  <<"1", ".", " ", "A", ":", " ", "T">>,
                  <<"D", "e", "s", "c", "r", "i", "p", "t", "i", "o", "n", ":">>,
                  <<"n", "o", "t", "e">>,
                  <<"-", " ", "b">>,
                  <<"D", "u", "r", "a", "t", "i", "o", "n", ":", " ", "3">>,
                  <<"D", "u", "r", "a", "t", "i", "o", "n", ":", " ", "4">>,
                  <<"1", ".", " ", "G", "o">>,
                  <<"D", "E", "S", "C", "R", "I", "P", "T", "I", "O", "N", ":", " ", "f">> >>) }

Inputs == LineInputs \cup CharInputs \cup {Example} \cup BlockTexts

\* Texts given to concurrent and repeated calls
PairInputs ==
    { JoinLines(<< <<"1", ".", " ", "A", ":", " ", "T">>, <<"H", "i", "g", "h", "l", "i", "g", "h", "t", ":", " ", "h">>, <<"D", "e", "s", "c", "r", "i", "p", "t", "i", "o", "n", ":", " ", "d">>, <<"n", "o", "t", "e">> >>),
      JoinLines(<< <<"2", ".", "B", ":">>, <<"n", "o", "t", "e">>, <<"-", " ", "b">>, <<" ", "3", ".", "C", ":", " ", "U", ":", "v", " ">>, <<"D", "u", "r", "a", "t", "i", "o", "n", ":", " ", "3">> >>),
      <<" ", "n", "o", "t", "e", "\n">>,
      <<>> }

(***************************************************************************)
(* The external-system callers: call_availability_system and               *)
(* check_loyalty_status (src/src/lambda_availability/app.py),              *)
(* call_booking_system and add_loyalty_points                              *)
(* (src/src/lambda_booking/app.py).  A Python dict is a record, a returned *)
(* value is tagged with its Python type.                                   *)
(***************************************************************************)

Callers ==
    {"call_availability_system", "call_booking_system",
     "check_loyalty_status", "add_loyalty_points"}

\* The functions that check one request and pass it to a caller
CallerOf ==
    [check_flight_availability |-> "call_availability_system",
     check_hotel_availability |-> "call_availability_system",
     check_activity_availability |-> "call_availability_system",
     process_flight_booking |-> "call_booking_system",
     process_hotel_booking |-> "call_booking_system",
     process_activity_booking |-> "call_booking_system"]

Wrappers == DOMAIN CallerOf

\* {}
EmptyDict == [k \in {} |-> TRUE]

Dict(d) == <<"dict", d>>

Bool(b) == <<"bool", b>>

PyStr(s) == <<"str", s>>

PyInt(n) == <<"int", n>>

PyList(items) == <<"list", items>>

NoReturn == <<"none">>

\* A response body that is not JSON
NotJson == <<"text">>

Json(d) == <<"json", d>>

\* The status codes the external systems answer with
StatusCodes == {200, 201, 204, 302, 404, 500}

\* The JSON bodies the system behind a caller answers with
Bodies(fn) ==
    CASE fn = "call_availability_system" ->
            {Json([available |-> TRUE]), Json([available |-> FALSE])}
      [] fn = "call_booking_system" ->
            {Json([status |-> PyStr("confirmed"), total_amount |-> PyInt(250)]),
             Json([error |-> PyStr(<<"Sold out", 0>>)])}
      [] fn = "check_loyalty_status" -> {Json([tier |-> "gold"])}
      [] fn = "add_loyalty_points" -> {Json([added |-> TRUE])}

NoResponse == [kind |-> "none", status |-> 0, body |-> NotJson]

\* requests.post / requests.get raised (connection error, timeout)
TransportFailure == [kind |-> "exception", status |-> 0, body |-> NotJson]

\* What requests.post / requests.get can produce for a caller
Responses(fn) ==
    {[kind |-> "response", status |-> s, body |-> b] :
        s \in StatusCodes, b \in Bodies(fn) \cup {NotJson}}
    \cup {TransportFailure}

\* The message of the except clause, the message of the status branch
ExceptionMessage(fn) ==
    CASE fn = "call_availability_system" -> <<"Error calling availability system", 0>>
      [] fn = "call_booking_system" -> PyStr(<<"Error calling booking system", 0>>)
      [] OTHER -> <<"", 0>>

StatusMessage(fn, status) ==
    CASE fn = "call_availability_system" -> <<"Availability system returned error", status>>
      [] fn = "call_booking_system" -> PyStr(<<"Booking system returned error", status>>)
      [] OTHER -> <<"", status>>

\* The value each caller returns when the call did not succeed
Failure(fn, message) ==
    CASE fn = "call_availability_system" -> Dict([error |-> message, available |-> FALSE])
      [] fn = "call_booking_system" -> Dict([error |-> message])
      [] fn = "check_loyalty_status" -> Dict(EmptyDict)
      [] fn = "add_loyalty_points" -> Bool(FALSE)

\* if response.status_code == 200
IsSuccess2xx(resp) == resp.status \in 200..299

IsSuccess(resp) == resp.status = 200

\* The value the caller returns once requests.post / requests.get produced resp
CallerReturn(fn, resp) ==
    IF resp.kind = "exception" THEN Failure(fn, ExceptionMessage(fn))
    ELSE IF IsSuccess(resp)
         THEN IF fn = "add_loyalty_points" THEN Bool(TRUE)
              ELSE IF resp.body = NotJson THEN Failure(fn, ExceptionMessage(fn))
              ELSE Dict(resp.body[2])
    ELSE Failure(fn, StatusMessage(fn, resp.status))

\* The value the wrapper returns when a required parameter is missing
MissingParameters(w) ==
    IF CallerOf[w] = "call_availability_system"
    THEN Dict([error |-> <<"Missing required parameters", 0>>, available |-> FALSE])
    ELSE Dict([error |-> PyStr(<<"Missing required parameters", 0>>)])

\* The values the simulate_* function of a wrapper returns
Simulated(w) ==
    IF CallerOf[w] = "call_availability_system"
    THEN {Dict([available |-> TRUE]),
          Dict([error |-> <<"Invalid date format", 0>>, available |-> FALSE])}
    ELSE {Dict([status |-> PyStr("confirmed"), total_amount |-> PyInt(250)]),
          Dict([error |-> PyStr(<<"Invalid ID format", 0>>)])}

ExtIdle ==
    [fn |-> "none", via |-> "none", pc |-> "idle", url |-> FALSE, valid |-> TRUE,
     sent |-> 0, resp |-> NoResponse, ret |-> NoReturn]

(***************************************************************************)
(* Booking storage: S3Client.save_booking_data and get_booking_data        *)
(* (src/src/utils/s3_client.py).  A Python value is tagged with its type:  *)
(* <<"str", s>>, <<"int", n>>, <<"list", items>>, <<"dict", fields>>.      *)
(* A JSON document is tagged with the JSON types: <<"string", s>> (and     *)
(* <<"characters", chars>> for a string kept as its characters),           *)
(* <<"number", n>>, <<"boolean", b>>, <<"array", items>>,                  *)
(* <<"object", members>>.                                                  *)
(***************************************************************************)

\* json.dumps(value)
RECURSIVE Dumps(_)
Dumps(value) ==
    CASE value[1] = "str" -> <<"string", value[2]>>
      [] value[1] = "text" -> <<"characters", value[2]>>
      [] value[1] = "int" -> <<"number", value[2]>>
      [] value[1] = "bool" -> <<"boolean", value[2]>>
      [] value[1] = "list" ->
            <<"array", [k \in 1..Len(value[2]) |-> Dumps(value[2][k])]>>
      [] value[1] = "dict" ->
            <<"object", [k \in DOMAIN value[2] |-> Dumps(value[2][k])]>>

\* json.loads(document)
RECURSIVE Loads(_)
Loads(document) ==
    CASE document[1] = "string" -> <<"str", document[2]>>
      [] document[1] = "characters" -> <<"text", document[2]>>
      [] document[1] = "number" -> <<"int", document[2]>>
      [] document[1] = "boolean" -> <<"bool", document[2]>>
      [] document[1] = "array" ->
            <<"list", [k \in 1..Len(document[2]) |-> Loads(document[2][k])]>>
      [] document[1] = "object" ->
            <<"dict", [k \in DOMAIN document[2] |-> Loads(document[2][k])]>>

BookingIds == {"b1", "b2"}

\* The booking records the handlers store
BookingData ==
    { Dict([booking_id |-> PyStr("b1"),
            user_info |-> Dict([id |-> PyStr("u1")]),
            passengers |-> PyInt(2),
            passenger_names |-> PyList(<<PyStr("ann"), PyStr("bob")>>)]),
      Dict([booking_id |-> PyStr("b2"),
            user_info |-> Dict([id |-> PyStr("u2")])]),
      Dict(EmptyDict) }

\* object_key = f"bookings/{booking_id}.json"
ObjectKeyFixed(booking_id) == <<"bookings/", "booking", ".json">>

ObjectKey(booking_id) == <<"bookings/", booking_id, ".json">>

ObjectKeys == {ObjectKey(b) : b \in BookingIds}

\* No object under a key
NoObject == <<>>

\* How a call of the storage service can end: put_object stores the object
\* and answers; it fails and stores nothing; it stores the object but the
\* client sees an error
PutOutcomes == {"stored", "rejected", "stored_reply_lost"}

\* get_object answers; it raises ClientError; it raises another error
GetOutcomes == {"answered", "client_error", "other_error"}

NeverSaved == [state |-> "never", data |-> Dict(EmptyDict)]

NoStorageCall ==
    [op |-> "none", id |-> "", outcome |-> "none", ret |-> NoReturn]

\* S3Client.get_object: the 'data' of its result, NoObject standing for None
GetObjectData(objects, key, outcome) ==
    IF outcome = "answered" THEN objects[key] ELSE NoObject

\* The value get_booking_data returns
GetBookingDataReturn(objects, booking_id, outcome) ==
    LET data == GetObjectData(objects, ObjectKey(booking_id), outcome)
    IN  IF outcome = "other_error" THEN Dict(EmptyDict)
        ELSE IF data # NoObject THEN Loads(data)
        ELSE Dict(EmptyDict)

(***************************************************************************)
(* Python values of the handlers.  <<"text", chars>> is a str whose        *)
(* characters the code inspects (lower, split); <<"str", s>> is a str the   *)
(* code only passes on, "" being the empty one.                            *)
(***************************************************************************)

PyText(chars) == <<"text", chars>>

\* bool(value)
Truthy(value) ==
    CASE value[1] = "str" -> value[2] # ""
      [] value[1] = "text" -> Len(value[2]) > 0
      [] value[1] = "int" -> value[2] # 0
      [] value[1] = "list" -> Len(value[2]) > 0
      [] value[1] = "dict" -> DOMAIN value[2] # {}
      [] value[1] = "bool" -> value[2]
      [] OTHER -> FALSE

\* key in d
Has(d, key) == key \in DOMAIN d[2]

\* d.get(key, default)
Get(d, key, default) == IF Has(d, key) THEN d[2][key] ELSE default

\* {'error': text}
Err(text) == Dict([error |-> PyStr(<<text, 0>>)])

\* datetime.utcnow().isoformat()
UtcNow == PyStr("utcnow")

\* The booking_id a process_*_booking function is given: the id of the
\* request, and for a component of a package the suffix "-flight", "-hotel"
\* or "-activity-" with the number of the activity
IdOf(booking_id, suffix, n) == <<booking_id, suffix, n>>

\* f"AIR-{booking_id[:8].upper()}", kept as the prefix and the id
ConfirmationCode(prefix, booking_id) == PyStr(<<prefix, booking_id>>)

(***************************************************************************)
(* The booking functions of src/src/lambda_booking/app.py.  url: the       *)
(* BOOKING_SYSTEM_URL is configured; resp: what requests.post produces if  *)
(* call_booking_system is reached.                                         *)
(***************************************************************************)

\* [p.get('name', '') for p in people]
NamesOf(people) ==
    PyList([k \in 1..Len(people[2]) |-> Get(people[2][k], "name", PyStr(""))])

\* base_price of simulate_flight_booking
FlightBasePrice(cabin_class) ==
    IF Lower(cabin_class) = <<"b", "u", "s", "i", "n", "e", "s", "s">> THEN 750
    ELSE IF Lower(cabin_class) = <<"f", "i", "r", "s", "t">> THEN 1200
    ELSE 250

SimulateFlightBooking(booking_id, flight_id, passengers) ==
    LET flight_parts == Split(flight_id[2], "-")
        passenger_count == Len(passengers[2])
    IN  IF Len(flight_parts) < 4 THEN Err("Invalid flight ID format")
        ELSE Dict([booking_id |-> PyStr(booking_id),
                   status |-> PyStr("confirmed"),
                   airline |-> PyText(flight_parts[1]),
                   flight_number |-> PyText(flight_parts[2]),
                   departure_date |-> PyText(flight_parts[3]),
                   cabin_class |-> PyText(flight_parts[4]),
                   passengers |-> PyInt(passenger_count),
                   passenger_names |-> NamesOf(passengers),
                   total_amount |-> PyInt(FlightBasePrice(flight_parts[4]) * passenger_count),
                   currency |-> PyStr("USD"),
                   booking_date |-> UtcNow,
                   confirmation_code |-> ConfirmationCode("AIR-", booking_id)])

\* datetime.strptime(text, '%Y-%m-%d') on the dates of the modelled
\* requests: the day number of a date, 0 standing for ValueError
Strptime(text) ==
    CASE text = <<"2", "0", "2", "4", "-", "0", "6", "-", "0", "1">> -> 1
      [] text = <<"2", "0", "2", "4", "-", "0", "6", "-", "0", "3">> -> 3
      [] OTHER -> 0

Digits == <<"1", "2", "3", "4", "5", "6", "7", "8", "9">>

\* int(text) if text.isdigit() else 3, for the one-digit star ratings
StarsOf(text) ==
    IF Len(text) = 1 /\ \E k \in 1..Len(Digits) : Digits[k] = text[1]
    THEN CHOOSE k \in 1..Len(Digits) : Digits[k] = text[1]
    ELSE IF text = <<"0">> THEN 0 ELSE 3

\* base_price of simulate_hotel_booking
HotelBasePrice(stars, room_type) ==
    100 + stars * 30
    + (IF Lower(room_type) = <<"d", "e", "l", "u", "x", "e">> THEN 50
       ELSE IF Lower(room_type) = <<"s", "u", "i", "t", "e">> THEN 150 ELSE 0)

SimulateHotelBooking(booking_id, hotel_id, room_type, check_in, check_out, guests) ==
    LET nights == Strptime(check_out[2]) - Strptime(check_in[2])
        hotel_parts == Split(hotel_id[2], "-")
        stars == StarsOf(hotel_parts[3])
    IN  IF Strptime(check_in[2]) = 0 \/ Strptime(check_out[2]) = 0
        THEN Err("Invalid date format. Use YYYY-MM-DD")
        ELSE IF nights <= 0 THEN Err("Check-out date must be after check-in date")
        ELSE IF Len(hotel_parts) < 3 THEN Err("Invalid hotel ID format")
        ELSE Dict([booking_id |-> PyStr(booking_id),
                   status |-> PyStr("confirmed"),
                   hotel_name |-> PyText(hotel_parts[1]),
                   location |-> PyText(hotel_parts[2]),
                   stars |-> PyInt(stars),
                   room_type |-> room_type,
                   check_in |-> check_in,
                   check_out |-> check_out,
                   nights |-> PyInt(nights),
                   guests |-> PyInt(Len(guests[2])),
                   guest_names |-> NamesOf(guests),
                   total_amount |-> PyInt(HotelBasePrice(stars, room_type[2]) * nights),
                   currency |-> PyStr("USD"),
                   booking_date |-> UtcNow,
                   confirmation_code |-> ConfirmationCode("HTL-", booking_id)])

\* base_price of simulate_activity_booking
ActivityBasePrice(activity_type) ==
    CASE Lower(activity_type) = <<"t", "o", "u", "r">> -> 45
      [] Lower(activity_type) = <<"m", "u", "s", "e", "u", "m">> -> 25
      [] Lower(activity_type) = <<"a", "d", "v", "e", "n", "t", "u", "r", "e">> -> 85
      [] Lower(activity_type) = <<"c", "u", "l", "i", "n", "a", "r", "y">> -> 60
      [] OTHER -> 50

SimulateActivityBooking(booking_id, activity_id, date, time_slot, participants) ==
    LET activity_parts == Split(activity_id[2], "-")
        participant_count == Len(participants[2])
    IN  IF Len(activity_parts) < 3 THEN Err("Invalid activity ID format")
        ELSE Dict([booking_id |-> PyStr(booking_id),
                   status |-> PyStr("confirmed"),
                   activity_name |-> PyText(activity_parts[1]),
                   activity_type |-> PyText(activity_parts[2]),
                   location |-> PyText(activity_parts[3]),
                   date |-> date,
                   time_slot |-> time_slot,
                   participants |-> PyInt(participant_count),
                   participant_names |-> NamesOf(participants),
                   total_amount |-> PyInt(ActivityBasePrice(activity_parts[2]) * participant_count),
                   currency |-> PyStr("USD"),
                   booking_date |-> UtcNow,
                   confirmation_code |-> ConfirmationCode("ACT-", booking_id)])

\* The record process_flight_booking returns before it books: details that
\* is no dict makes details.get raise, which the except clause turns into
\* the error record; {} when the parameters are there
FlightParameterError(details) ==
    IF details[1] # "dict" THEN Err("Error processing flight booking")
    ELSE IF ~Truthy(Get(details, "flight_id", PyText(<<>>)))
         THEN Err("Missing required parameter: flight_id")
    ELSE IF ~Truthy(Get(details, "passengers", PyList(<<>>)))
         THEN Err("Missing required parameter: passengers")
    ELSE Dict(EmptyDict)

HotelParameterError(details) ==
    IF details[1] # "dict" THEN Err("Error processing hotel booking")
    ELSE IF ~(/\ Truthy(Get(details, "hotel_id", PyText(<<>>)))
              /\ Truthy(Get(details, "room_type", PyText(<<>>)))
              /\ Truthy(Get(details, "check_in", PyText(<<>>)))
              /\ Truthy(Get(details, "check_out", PyText(<<>>))))
         THEN Err("Missing required hotel parameters")
    ELSE IF ~Truthy(Get(details, "guests", PyList(<<>>)))
         THEN Err("Missing required parameter: guests")
    ELSE Dict(EmptyDict)

ActivityParameterError(details) ==
    IF details[1] # "dict" THEN Err("Error processing activity booking")
    ELSE IF ~(/\ Truthy(Get(details, "activity_id", PyText(<<>>)))
              /\ Truthy(Get(details, "date", PyText(<<>>)))
              /\ Truthy(Get(details, "time_slot", PyText(<<>>))))
         THEN Err("Missing required activity parameters")
    ELSE IF ~Truthy(Get(details, "participants", PyList(<<>>)))
         THEN Err("Missing required parameter: participants")
    ELSE Dict(EmptyDict)

ParameterError(kind, details) ==
    CASE kind = "flight" -> FlightParameterError(details)
      [] kind = "hotel" -> HotelParameterError(details)
      [] kind = "activity" -> ActivityParameterError(details)

\* The simulate_*_booking function of a kind, on the parameters
\* process_*_booking takes from details
SimulateBooking(kind, booking_id, details) ==
    CASE kind = "flight" ->
            SimulateFlightBooking(booking_id, details[2].flight_id, details[2].passengers)
      [] kind = "hotel" ->
            SimulateHotelBooking(booking_id, details[2].hotel_id, details[2].room_type,
                                 details[2].check_in, details[2].check_out,
                                 details[2].guests)
      [] kind = "activity" ->
            SimulateActivityBooking(booking_id, details[2].activity_id, details[2].date,
                                    details[2].time_slot, details[2].participants)

\* process_*_booking reaches requests.post
ReachesBookingSystem(kind, details, url) ==
    kind # "none" /\ url /\ ParameterError(kind, details) = Dict(EmptyDict)

\* process_flight_booking, process_hotel_booking, process_activity_booking
ProcessBooking(kind, booking_id, details, url, resp) ==
    IF ParameterError(kind, details) # Dict(EmptyDict) THEN ParameterError(kind, details)
    ELSE IF url THEN CallerReturn("call_booking_system", resp)
    ELSE SimulateBooking(kind, booking_id, details)

\* The calls process_package_booking makes, in their order; a flight or a
\* hotel that is missing from details is not processed and counts as {}
Components(booking_id, details) ==
    LET flight_details == Get(details, "flight", Dict(EmptyDict))
        hotel_details == Get(details, "hotel", Dict(EmptyDict))
        activity_details == Get(details, "activities", PyList(<<>>))[2]
    IN  << [kind |-> IF Truthy(flight_details) THEN "flight" ELSE "none",
            id |-> IdOf(booking_id, "-flight", 0), details |-> flight_details],
           [kind |-> IF Truthy(hotel_details) THEN "hotel" ELSE "none",
            id |-> IdOf(booking_id, "-hotel", 0), details |-> hotel_details] >>
        \o [k \in 1..Len(activity_details) |->
               [kind |-> "activity", id |-> IdOf(booking_id, "-activity-", k),
                details |-> activity_details[k]]]

\* The calls the handler makes for a request of a type
CallsOf(booking_type, booking_id, details) ==
    IF booking_type = "package"
    THEN IF details[1] = "dict" THEN Components(booking_id, details) ELSE <<>>
    ELSE << [kind |-> booking_type, id |-> IdOf(booking_id, "", 0),
             details |-> details] >>

\* The result of one call
CallResult(call, url, resp) ==
    IF call.kind = "none" THEN Dict(EmptyDict)
    ELSE ProcessBooking(call.kind, call.id, call.details, url, resp)

RECURSIVE SumAmounts(_)
SumAmounts(results) ==
    IF results = <<>> THEN 0
    ELSE Get(Head(results), "total_amount", PyInt(0))[2] + SumAmounts(Tail(results))

\* What process_package_booking returns once its calls returned results
PackageResult(booking_id, details, results) ==
    IF details[1] # "dict" THEN Err("Error processing package booking")
    ELSE LET failed == {k \in 1..Len(results) : Has(results[k], "error")}
         IN  IF failed # {}
             THEN Dict([error |-> PyStr(<<"Package booking failed", Cardinality(failed)>>)])
             ELSE Dict([booking_id |-> PyStr(IdOf(booking_id, "", 0)),
                        status |-> PyStr("confirmed"),
                        flight |-> results[1],
                        hotel |-> results[2],
                        activities |-> PyList(SubSeq(results, 3, Len(results))),
                        total_amount |-> PyInt(SumAmounts(results)),
                        currency |-> PyStr("USD"),
                        booking_date |-> UtcNow,
                        confirmation_code |->
                            ConfirmationCode("PKG-", IdOf(booking_id, "", 0))])

\* booking_result of lambda_handler once the calls returned results
BookingResult(booking_type, booking_id, details, results) ==
    IF booking_type = "package" THEN PackageResult(booking_id, details, results)
    ELSE results[1]

\* The branch of lines 83-94 a booking_type takes
TypeOf(booking_type) ==
    CASE Lower(booking_type) = <<"f", "l", "i", "g", "h", "t">> -> "flight"
      [] Lower(booking_type) = <<"h", "o", "t", "e", "l">> -> "hotel"
      [] Lower(booking_type) = <<"a", "c", "t", "i", "v", "i", "t", "y">> -> "activity"
      [] Lower(booking_type) = <<"p", "a", "c", "k", "a", "g", "e">> -> "package"
      [] OTHER -> "unsupported"

\* booking_data of lines 101-109
BookingDataOf(booking_id, booking_type, details, user_info, booking_result) ==
    Dict([booking_id |-> PyStr(booking_id),
          booking_type |-> booking_type,
          details |-> details,
          user_info |-> user_info,
          timestamp |-> UtcNow,
          status |-> Get(booking_result, "status", PyStr("confirmed")),
          confirmation |-> booking_result])

\* result of lines 118-123
Confirmation(booking_id, booking_result) ==
    Dict([booking_id |-> PyStr(booking_id),
          status |-> Get(booking_result, "status", PyStr("confirmed")),
          timestamp |-> UtcNow,
          confirmation |-> booking_result])

\* create_response(status_code, body): the headers are fixed
CreateResponse(status_code, body) ==
    Dict([statusCode |-> PyInt(status_code),
          headers |-> PyStr("cors"),
          body |-> <<"json.dumps", Dumps(body)>>])

(***************************************************************************)
(* The requests given to the booking handler.                              *)
(***************************************************************************)

MaxPeople == 2

Names == <<"ann", "bob", "cy", "dee">>

\* A list of n passengers, guests or participants
People(n) == PyList([k \in 1..n |-> Dict([name |-> PyStr(Names[k])])])

FlightDetails(flight_id, n) ==
    Dict([flight_id |-> PyText(flight_id), passengers |-> People(n)])

HotelDetails(hotel_id, check_in, check_out, n) ==
    Dict([hotel_id |-> PyText(hotel_id), room_type |-> PyText(<<"S", "u", "i", "t", "e">>),
          check_in |-> PyText(check_in), check_out |-> PyText(check_out),
          guests |-> People(n)])

ActivityDetails(activity_id, n) ==
    Dict([activity_id |-> PyText(activity_id), date |-> PyText(<<"2", "0", "2", "4", "-", "0", "6", "-", "0", "1">>),
          time_slot |-> PyText(<<"1", "0", ":", "0", "0">>), participants |-> People(n)])

GoodFlight(n) == FlightDetails(<<"A", "A", "-", "1", "2", "-", "0", "6", "0", "1", "-", "F", "i", "r", "s", "t">>, n)

GoodHotel(n) == HotelDetails(<<"R", "i", "t", "z", "-", "P", "a", "r", "i", "s", "-", "5">>, <<"2", "0", "2", "4", "-", "0", "6", "-", "0", "1">>, <<"2", "0", "2", "4", "-", "0", "6", "-", "0", "3">>, n)

GoodActivity(n) == ActivityDetails(<<"L", "o", "u", "v", "r", "e", "-", "M", "u", "s", "e", "u", "m", "-", "P", "a", "r", "i", "s">>, n)

PackageDetails(flight, hotel, activities) ==
    Dict([flight |-> flight, hotel |-> hotel, activities |-> PyList(activities)])

\* type and details of the booking requests
BookingRequests ==
    {[type |-> <<"F", "l", "i", "g", "h", "t">>, details |-> GoodFlight(n)] : n \in 0..MaxPeople}
    \cup {[type |-> <<"f", "l", "i", "g", "h", "t">>, details |-> d] :
            d \in {FlightDetails(<<"A", "A", "1", "2">>, 1), Dict(EmptyDict), PyStr("x")}}
    \cup {[type |-> <<"h", "o", "t", "e", "l">>, details |-> d] :
            d \in {GoodHotel(1),
                   HotelDetails(<<"R", "i", "t", "z", "-", "P", "a", "r", "i", "s", "-", "5">>, <<"2", "0", "2", "4", "-", "0", "6", "-", "0", "3">>, <<"2", "0", "2", "4", "-", "0", "6", "-", "0", "1">>, 1),
                   HotelDetails(<<"R", "i", "t", "z", "-", "P", "a", "r", "i", "s", "-", "5">>, <<"J", "u", "n", "e", " ", "1">>, <<"2", "0", "2", "4", "-", "0", "6", "-", "0", "3">>, 1)}}
    \cup {[type |-> <<"a", "c", "t", "i", "v", "i", "t", "y">>, details |-> d] :
            d \in {GoodActivity(1), ActivityDetails(<<"L", "o", "u", "v", "r", "e">>, 1)}}
    \cup {[type |-> <<"p", "a", "c", "k", "a", "g", "e">>, details |-> d] :
            d \in {PackageDetails(GoodFlight(1), GoodHotel(1), <<>>),
                   PackageDetails(GoodFlight(1), GoodHotel(0), <<>>),
                   PackageDetails(GoodFlight(1), Dict(EmptyDict),
                                  <<GoodActivity(1), ActivityDetails(<<"L", "o", "u", "v", "r", "e">>, 1)>>)}}
    \cup {[type |-> <<"c", "r", "u", "i", "s", "e">>, details |-> GoodFlight(1)],
          [type |-> <<>>, details |-> GoodFlight(1)]}

\* user_info of the booking requests: absent, with an id, without an id, and
\* a text in place of the dict
UserInfos ==
    {Dict(EmptyDict), Dict([id |-> PyStr("u1")]), Dict([name |-> PyStr("ann")]),
     PyStr("ann")}

\* How a handler is invoked: through the gateway with a JSON body, through
\* the gateway with a body that is no JSON object, directly
Vias == {"gateway", "malformed", "direct"}

\* event.get('body') is truthy
HasBody(via) == via \in {"gateway", "malformed"}

\* What requests.post produces in the runs of the handlers
Answers(fn) ==
    {r \in Responses(fn) :
        \/ r.kind = "exception"
        \/ r.status \in {200, 201, 500} /\ r.body # NotJson
        \/ r.status = 200 /\ r.body = NotJson}

\* The external system took the request as a booking
Accepted(resp) ==
    /\ resp.kind = "response"
    /\ resp.status \in 200..299
    /\ resp.body # NotJson
    /\ "error" \notin DOMAIN resp.body[2]

BkIdle ==
    [pc |-> "idle", via |-> "direct", type |-> <<>>, details |-> Dict(EmptyDict),
     user_info |-> Dict(EmptyDict), url |-> FALSE, loyalty_url |-> FALSE,
     id |-> "", issued |-> {}, uuids |-> {}, loaded |-> FALSE, calls |-> <<>>, results |-> <<>>, accepted |-> {},
     result |-> Dict(EmptyDict), saves |-> <<>>, points |-> <<>>, ret |-> NoReturn]

(***************************************************************************)
(* lambda_availability/app.py: the availability checks.                    *)
(***************************************************************************)

\* a and b of Python: the first operand when it is falsy, else the second
PyAnd(a, b) == IF Truthy(a) THEN b ELSE a

\* The value of a caller as a Python value the handler puts in its result
Tagged(value) ==
    Dict([k \in DOMAIN value[2] |->
             IF k \in {"available", "added"} THEN Bool(value[2][k]) ELSE PyStr(value[2][k])])

\* {'error': text, 'available': False}
Unavailable(text) == Dict([error |-> PyStr(<<text, 0>>), available |-> Bool(FALSE)])

\* The parameters check_flight_availability, check_hotel_availability and
\* check_activity_availability require
RequiredParameters(kind) ==
    CASE kind = "flight" -> {"origin", "destination", "departure_date"}
      [] kind = "hotel" -> {"location", "check_in", "check_out"}
      [] kind = "activity" -> {"location", "date"}

\* not all([...]) of the required parameters
MissingAvailabilityParameters(kind, params) ==
    \E k \in RequiredParameters(kind) : ~Truthy(Get(params, k, PyStr("")))

MissingAvailabilityMessage(kind) ==
    CASE kind = "flight" -> "Missing required flight parameters"
      [] kind = "hotel" -> "Missing required hotel parameters"
      [] kind = "activity" -> "Missing required activity parameters"

\* simulate_flight_availability, simulate_hotel_availability and
\* simulate_activity_availability: the dates are parsed, the generated
\* options are left out of the result
SimulateAvailability(kind, params) ==
    CASE kind = "flight" ->
            IF \/ Strptime(params[2].departure_date[2]) = 0
               \/ /\ Truthy(Get(params, "return_date", PyStr("")))
                  /\ Strptime(params[2].return_date[2]) = 0
            THEN Unavailable("Invalid date format. Use YYYY-MM-DD")
            ELSE Dict([available |-> Bool(TRUE), origin |-> params[2].origin,
                       destination |-> params[2].destination,
                       roundtrip |-> Bool(Truthy(Get(params, "return_date", PyStr(""))))])
      [] kind = "hotel" ->
            IF Strptime(params[2].check_in[2]) = 0 \/ Strptime(params[2].check_out[2]) = 0
            THEN Unavailable("Invalid date format. Use YYYY-MM-DD")
            ELSE IF Strptime(params[2].check_out[2]) - Strptime(params[2].check_in[2]) <= 0
                 THEN Unavailable("Check-out date must be after check-in date")
            ELSE Dict([available |-> Bool(TRUE), location |-> params[2].location,
                       check_in |-> params[2].check_in, check_out |-> params[2].check_out,
                       stay_nights |-> PyInt(Strptime(params[2].check_out[2])
                                             - Strptime(params[2].check_in[2]))])
      [] kind = "activity" ->
            IF Strptime(params[2].date[2]) = 0
            THEN Unavailable("Invalid date format. Use YYYY-MM-DD")
            ELSE Dict([available |-> Bool(TRUE), location |-> params[2].location,
                       date |-> params[2].date])

\* the check reaches call_availability_system
ReachesAvailabilitySystem(kind, params, url) ==
    url /\ ~MissingAvailabilityParameters(kind, params)

\* check_flight_availability, check_hotel_availability and
\* check_activity_availability; resp is what requests.post produces when the
\* availability system is called
CheckAvailability(kind, params, url, resp) ==
    IF MissingAvailabilityParameters(kind, params)
    THEN Unavailable(MissingAvailabilityMessage(kind))
    ELSE IF url THEN Tagged(CallerReturn("call_availability_system", resp))
    ELSE SimulateAvailability(kind, params)

\* The checks check_package_availability makes, in their order; a flight or
\* a hotel without parameters is not checked and counts as {}
AvailabilityComponents(params) ==
    LET flight_params == Get(params, "flight", Dict(EmptyDict))
        hotel_params == Get(params, "hotel", Dict(EmptyDict))
        activity_params == Get(params, "activities", PyList(<<>>))[2]
    IN  << [kind |-> IF Truthy(flight_params) THEN "flight" ELSE "none",
            params |-> flight_params],
           [kind |-> IF Truthy(hotel_params) THEN "hotel" ELSE "none",
            params |-> hotel_params] >>
        \o [k \in 1..Len(activity_params) |->
               [kind |-> "activity", params |-> activity_params[k]]]

\* The checks the handler makes for a request of a type
ChecksOf(request_type, params) ==
    IF request_type = "package" THEN AvailabilityComponents(params)
    ELSE << [kind |-> request_type, params |-> params] >>

\* The result of one check
CheckResult(check, url, resp) ==
    IF check.kind = "none" THEN Dict(EmptyDict)
    ELSE CheckAvailability(check.kind, check.params, url, resp)

\* all(activity.get('available', False) for activity in activity_results)
AllAvailable(activity_results) ==
    Bool(\A k \in 1..Len(activity_results) :
            Truthy(Get(activity_results[k], "available", Bool(FALSE))))

\* Lines 293-298: the conditional expression takes the whole conjunction as
\* its first branch, (A and B and all(...)) if activity_results else True
PackageAvailable(flight_results, hotel_results, activity_results) ==
    IF Len(activity_results) > 0
    THEN PyAnd(Get(flight_results, "available", Bool(FALSE)),
               PyAnd(Get(hotel_results, "available", Bool(FALSE)),
                     AllAvailable(activity_results)))
    ELSE Bool(TRUE)

\* check_package_availability, from the results of its checks
PackageAvailability(results) ==
    Dict([flight |-> results[1], hotel |-> results[2],
          activities |-> PyList(SubSeq(results, 3, Len(results))),
          available |-> PackageAvailable(results[1], results[2],
                                         SubSeq(results, 3, Len(results)))])

\* request_type.lower() of lines 69-80
RequestTypeOf(request_type) ==
    CASE Lower(request_type[2]) = <<"f", "l", "i", "g", "h", "t">> -> "flight"
      [] Lower(request_type[2]) = <<"h", "o", "t", "e", "l">> -> "hotel"
      [] Lower(request_type[2]) = <<"a", "c", "t", "i", "v", "i", "t", "y">> -> "activity"
      [] Lower(request_type[2]) = <<"p", "a", "c", "k", "a", "g", "e">> -> "package"
      [] OTHER -> "unsupported"

\* availability_results of lines 68-80
AvailabilityResults(request_type, results) ==
    IF request_type = "package" THEN PackageAvailability(results) ELSE results[1]

(***************************************************************************)
(* The requests given to the availability handler.                         *)
(***************************************************************************)

June1 == <<"2", "0", "2", "4", "-", "0", "6", "-", "0", "1">>

June3 == <<"2", "0", "2", "4", "-", "0", "6", "-", "0", "3">>

FlightSearch(origin, departure_date) ==
    Dict([origin |-> PyText(origin), destination |-> PyText(<<"C", "D", "G">>),
          departure_date |-> PyText(departure_date)])

HotelSearch(check_in, check_out) ==
    Dict([location |-> PyText(<<"P", "a", "r", "i", "s">>), check_in |-> PyText(check_in),
          check_out |-> PyText(check_out)])

ActivitySearch(date) ==
    Dict([location |-> PyText(<<"P", "a", "r", "i", "s">>), date |-> PyText(date)])

PackageSearch(flight, hotel, activities) ==
    Dict([flight |-> flight, hotel |-> hotel, activities |-> PyList(activities)])

\* type and params of the availability requests; the type 5 is no str
AvailabilityRequests ==
    {[type |-> PyText(<<"F", "l", "i", "g", "h", "t">>), params |-> p] :
        p \in {FlightSearch(<<"J", "F", "K">>, June1), FlightSearch(<<>>, June1),
               FlightSearch(<<"J", "F", "K">>, <<"J", "u", "n", "e", " ", "1">>)}}
    \cup {[type |-> PyText(<<"h", "o", "t", "e", "l">>), params |-> p] :
            p \in {HotelSearch(June1, June3), HotelSearch(June3, June1)}}
    \cup {[type |-> PyText(<<"a", "c", "t", "i", "v", "i", "t", "y">>), params |-> p] :
            p \in {ActivitySearch(June1), ActivitySearch(<<"J", "u", "n", "e", " ", "1">>)}}
    \cup {[type |-> PyText(<<"p", "a", "c", "k", "a", "g", "e">>), params |-> p] :
            p \in {PackageSearch(f, HotelSearch(June1, June3), a) :
                     f \in {FlightSearch(<<"J", "F", "K">>, June1),
                            FlightSearch(<<"J", "F", "K">>, <<"J", "u", "n", "e", " ", "1">>),
                            Dict(EmptyDict)},
                     a \in {<<>>, <<ActivitySearch(June1)>>}}
                   \cup {PackageSearch(FlightSearch(<<"J", "F", "K">>, June1),
                                       HotelSearch(June3, June1), <<>>),
                         PackageSearch(FlightSearch(<<"J", "F", "K">>, June1),
                                       HotelSearch(June1, June3),
                                       <<ActivitySearch(June1),
                                         ActivitySearch(<<"J", "u", "n", "e", " ", "1">>)>>)}}
    \cup {[type |-> PyText(<<"c", "r", "u", "i", "s", "e">>), params |-> FlightSearch(<<"J", "F", "K">>, June1)],
          [type |-> PyText(<<>>), params |-> FlightSearch(<<"J", "F", "K">>, June1)],
          [type |-> PyText(<<"f", "l", "i", "g", "h", "t">>), params |-> Dict(EmptyDict)],
          [type |-> PyInt(5), params |-> FlightSearch(<<"J", "F", "K">>, June1)]}

\* user_id of the requests: absent or given
UserIds == {"", "u1"}

AvIdle ==
    [pc |-> "idle", via |-> "direct", type |-> PyText(<<>>), params |-> Dict(EmptyDict),
     user_id |-> "", url |-> FALSE, loyalty_url |-> FALSE, loaded |-> FALSE,
     checks |-> <<>>, results |-> <<>>, result |-> Dict(EmptyDict), ret |-> NoReturn]

(***************************************************************************)
(* lambda_bookings_qa/app.py: the context given to the model.  The context *)
(* of a booking is the sequence of its lines, a line being its label and   *)
(* the values printed after it.                                            *)
(***************************************************************************)

UpperChar(ch) ==
    IF \E k \in 1..Len(LowerCase) : LowerCase[k] = ch
    THEN UpperCase[CHOOSE k \in 1..Len(LowerCase) : LowerCase[k] = ch]
    ELSE ch

\* s.capitalize()
Capitalize(s) == IF s = <<>> THEN <<>> ELSE <<UpperChar(s[1])>> \o Lower(Tail(s))

Unknown == PyStr("unknown")

\* f"{label}: {d.get(key, default)}"
Entry(label, d, key, default) == <<label, Get(d, key, default)>>

\* len(details.get(key, []))
CountOf(details, key) == PyInt(Len(Get(details, key, PyList(<<>>))[2]))

\* Lines 185-201: the lines every booking has
HeaderLines(k, booking, booking_type, confirmation) ==
    << <<"BOOKING", PyInt(k)>>,
       Entry("Booking ID", booking, "booking_id", Unknown),
       <<"Type", PyText(Capitalize(booking_type))>>,
       Entry("Status", booking, "status", Unknown),
       Entry("Booking Date", booking, "timestamp", Unknown) >>
    \o (IF Truthy(confirmation) /\ Has(confirmation, "confirmation_code")
        THEN <<Entry("Confirmation Code", confirmation, "confirmation_code", Unknown)>>
        ELSE <<>>)
    \o (IF Truthy(confirmation) /\ Has(confirmation, "total_amount")
        THEN << <<"Total Amount", Get(confirmation, "total_amount", PyInt(0)),
                  Get(confirmation, "currency", PyStr("USD"))>> >>
        ELSE <<>>)

\* Lines 204-213
FlightLines(details, confirmation) ==
    IF Truthy(confirmation)
    THEN << Entry("Airline", confirmation, "airline", Unknown),
            Entry("Flight Number", confirmation, "flight_number", Unknown),
            Entry("Departure Date", confirmation, "departure_date", Unknown),
            Entry("Cabin Class", confirmation, "cabin_class", Unknown),
            Entry("Passengers", confirmation, "passenger_count", PyInt(0)) >>
    ELSE IF Truthy(details)
    THEN << Entry("Flight ID", details, "flight_id", Unknown),
            <<"Passengers", CountOf(details, "passengers")>> >>
    ELSE <<>>

\* Lines 215-229
HotelLines(details, confirmation) ==
    IF Truthy(confirmation)
    THEN << Entry("Hotel", confirmation, "hotel_name", Unknown),
            Entry("Location", confirmation, "location", Unknown),
            Entry("Room Type", confirmation, "room_type", Unknown),
            Entry("Check-in", confirmation, "check_in", Unknown),
            Entry("Check-out", confirmation, "check_out", Unknown),
            Entry("Nights", confirmation, "nights", PyInt(0)),
            Entry("Guests", confirmation, "guests", PyInt(0)) >>
    ELSE IF Truthy(details)
    THEN << Entry("Hotel ID", details, "hotel_id", Unknown),
            Entry("Room Type", details, "room_type", Unknown),
            Entry("Check-in", details, "check_in", Unknown),
            Entry("Check-out", details, "check_out", Unknown),
            <<"Guests", CountOf(details, "guests")>> >>
    ELSE <<>>

\* Lines 231-243
ActivityLines(details, confirmation) ==
    IF Truthy(confirmation)
    THEN << Entry("Activity", confirmation, "activity_name", Unknown),
            Entry("Type", confirmation, "activity_type", Unknown),
            Entry("Location", confirmation, "location", Unknown),
            Entry("Date", confirmation, "date", Unknown),
            Entry("Time", confirmation, "time_slot", Unknown),
            Entry("Participants", confirmation, "participants", PyInt(0)) >>
    ELSE IF Truthy(details)
    THEN << Entry("Activity ID", details, "activity_id", Unknown),
            Entry("Date", details, "date", Unknown),
            Entry("Time", details, "time_slot", Unknown),
            <<"Participants", CountOf(details, "participants")>> >>
    ELSE <<>>

\* Lines 245-267
PackageLines(confirmation) ==
    << <<"Package Components">> >>
    \o (IF Has(confirmation, "flight")
        THEN << <<"  Flight">>,
                Entry("  - Airline", confirmation[2].flight, "airline", Unknown),
                Entry("  - Flight Number", confirmation[2].flight, "flight_number", Unknown),
                Entry("  - Departure Date", confirmation[2].flight, "departure_date", Unknown) >>
        ELSE <<>>)
    \o (IF Has(confirmation, "hotel")
        THEN << <<"  Hotel">>,
                Entry("  - Name", confirmation[2].hotel, "hotel_name", Unknown),
                Entry("  - Check-in", confirmation[2].hotel, "check_in", Unknown),
                Entry("  - Check-out", confirmation[2].hotel, "check_out", Unknown) >>
        ELSE <<>>)
    \o (IF Has(confirmation, "activities") /\ Truthy(confirmation[2].activities)
        THEN << <<"  Activities">> >>
             \o [k \in 1..Len(confirmation[2].activities[2]) |->
                    <<"  - Activity", PyInt(k),
                      Get(confirmation[2].activities[2][k], "activity_name", Unknown),
                      Get(confirmation[2].activities[2][k], "date", Unknown)>>]
        ELSE <<>>)

\* The lines of the k-th booking
BookingLines(k, booking) ==
    LET booking_type == Lower(Get(booking, "booking_type", PyText(<<"u", "n", "k", "n", "o", "w", "n">>))[2])
        details == Get(booking, "details", Dict(EmptyDict))
        confirmation == Get(booking, "confirmation", Dict(EmptyDict))
    IN  HeaderLines(k, booking, booking_type, confirmation)
        \o (CASE booking_type = <<"f", "l", "i", "g", "h", "t">> -> FlightLines(details, confirmation)
              [] booking_type = <<"h", "o", "t", "e", "l">> -> HotelLines(details, confirmation)
              [] booking_type = <<"a", "c", "t", "i", "v", "i", "t", "y">> -> ActivityLines(details, confirmation)
              [] booking_type = <<"p", "a", "c", "k", "a", "g", "e">> -> PackageLines(confirmation)
              [] OTHER -> <<>>)

\* format_booking_context(bookings)
FormatBookingContext(bookings) ==
    IF bookings = <<>> THEN << << <<"No booking information available.">> >> >>
    ELSE [k \in 1..Len(bookings) |-> BookingLines(k, bookings[k])]

(***************************************************************************)
(* lambda_bookings_qa/app.py: what the handler reads from the storage.     *)
(***************************************************************************)

\* The order in which list_objects_v2 lists the keys
BookingIdOrder == <<"b1", "b2">>

StoredUnder(objects, key) == objects[key] # NoObject

\* S3Client.list_objects(bookings_bucket, 'bookings/'): the keys of the
\* objects, [] when list_objects_v2 raises ClientError
ListObjectsReturn(objects, outcome) ==
    IF outcome = "answered"
    THEN SelectSeq([k \in 1..Len(BookingIdOrder) |-> ObjectKey(BookingIdOrder[k])],
                   LAMBDA key : StoredUnder(objects, key))
    ELSE <<>>

\* The filter as it would be if every listed booking were kept
OwnedByAnyone(booking_json, user_id) == TRUE

\* booking_json.get('user_info', {}).get('id') == user_id
OwnedBy(booking_json, user_id) ==
    Get(Get(booking_json, "user_info", Dict(EmptyDict)), "id", NoReturn) = PyStr(user_id)

\* user_info of booking_json has no get
OwnerRaises(booking_json) == Get(booking_json, "user_info", Dict(EmptyDict))[1] # "dict"

\* What bedrock_client.invoke_model returns: the generated text, or its
\* message when the service raised
ModelAnswers == {PyStr(<<"generated", 0>>), PyStr(<<"Error generating response", 0>>)}

\* The queries of the requests: absent or given
Queries == {PyStr(""), PyStr("q")}

\* The user ids of the requests and of the bookings
QaUserIds == {"", "u1", "u2"}

\* booking_id of the requests
QaBookingIds == {"", "b1", "b2"}

QaIdle ==
    [pc |-> "idle", via |-> "direct", query |-> PyStr(""), user_id |-> "",
     booking_id |-> "", keys |-> <<>>, booking_data |-> <<>>, invoked |-> 0,
     context |-> <<>>, ret |-> NoReturn]

(***************************************************************************)
(* lambda_chat_client/app.py: the chat handler.                            *)
(***************************************************************************)

\* p in s, for two strs
HasSubstring(s, p) ==
    \E k \in 1..(Len(s) - Len(p) + 1) : SubSeq(s, k, k + Len(p) - 1) = p

\* Lines 83-84: the response text marks the message as unsafe
Flagged(response_text) ==
    \/ HasSubstring(response_text, <<"I", " ", "a", "p", "o", "l", "o", "g", "i", "z", "e", ",", " ", "b", "u", "t", " ", "I", " ", "c", "a", "n", "n", "o", "t">>)
    \/ HasSubstring(response_text, <<"I", "'", "m", " ", "u", "n", "a", "b", "l", "e", " ", "t", "o">>)

\* The context as it would be with the session id of another conversation
CreateConversationContextFixed(user_id, session_id) ==
    Dict([timestamp |-> UtcNow, session_id |-> PyStr("s1"),
          user |-> Dict([id |-> PyStr(user_id)])])

\* create_conversation_context(user_id, session_id)
CreateConversationContext(user_id, session_id) ==
    Dict([timestamp |-> UtcNow, session_id |-> PyStr(session_id),
          user |-> Dict([id |-> PyStr(user_id)])])

\* The completions bedrock_client.invoke_agent returns: texts of the agent,
\* no text, and the message of its except clause
Completions ==
    {<<"P", "a", "r", "i", "s", " ", "i", "s", " ", "l", "o", "v", "e", "l", "y">>, <<"S", "o", "r", "r", "y", ".", " ", "I", " ", "a", "p", "o", "l", "o", "g", "i", "z", "e", ",", " ", "b", "u", "t", " ", "I", " ", "c", "a", "n", "n", "o", "t", " ", "h", "e", "l", "p">>, <<"I", "'", "m", " ", "u", "n", "a", "b", "l", "e", " ", "t", "o">>,
     <<>>, <<"E", "r", "r", "o", "r", ":", " ", "t", "i", "m", "e", "o", "u", "t">>}

\* The text returned when the agent gave none
DefaultReply == <<"I", " ", "u", "n", "d", "e", "r", "s", "t", "a", "n", "d", " ", "y", "o", "u", "'", "r", "e", " ", "i", "n", "t", "e", "r", "e", "s", "t", "e", "d", " ", "i", "n", " ", "t", "r", "a", "v", "e", "l", ".">>

\* The text returned when no guardrails agent is configured
NoGuardrailsReply == <<"N", "o", " ", "g", "u", "a", "r", "d", "r", "a", "i", "l", "s", " ", "c", "o", "n", "f", "i", "g", "u", "r", "e", "d", ".">>

\* The messages of the requests: absent or given
Messages == {PyStr(""), PyStr("hello")}

\* The session ids a client makes up
ClientSessionIds == {"s1"}

\* The session ids uuid4 gives
GeneratedSessionIds == {"g1", "g2"}

ChatIdle ==
    [pc |-> "idle", via |-> "direct", message |-> PyStr(""), request_session_id |-> "",
     user_id |-> "", guardrails |-> FALSE, loaded |-> FALSE, session_id |-> "",
     issued |-> {}, context |-> Dict(EmptyDict), agent_sessions |-> <<>>,
     response_text |-> <<>>, ret |-> NoReturn]

(***************************************************************************)
(* lambda_ideation/app.py: the ideation handler.                           *)
(***************************************************************************)

\* A record of parse_ideas_response as a Python value
IdeaValue(idea) ==
    Dict([title |-> PyText(idea.title), description |-> PyText(idea.description),
          highlights |-> PyList([k \in 1..Len(idea.highlights) |->
                                    PyText(idea.highlights[k])]),
          duration |-> PyText(idea.duration)])

\* ideas of line 90
IdeasValue(ideas_response) ==
    PyList([k \in 1..Len(ParseIdeas(ideas_response)) |->
               IdeaValue(ParseIdeas(ideas_response)[k])])

\* The texts bedrock_client.invoke_model returns to the ideation handler
IdeationTexts ==
    {<<"1", ".", " ", "A", ":", " ", "R", "o", "m", "e">> \o NL \o <<"D", "u", "r", "a", "t", "i", "o", "n", ":", " ", "3", " ", "d", "a", "y", "s">>, <<"G", "o", " ", "t", "o", " ", "R", "o", "m", "e">>,
     <<"E", "r", "r", "o", "r", " ", "g", "e", "n", "e", "r", "a", "t", "i", "n", "g", " ", "r", "e", "s", "p", "o", "n", "s", "e">>}

\* preferences of the requests: absent, a dict, and a str in place of the
\* dict, on which format_preferences raises
Preferences == {Dict(EmptyDict), Dict([budget |-> PyStr("low")]), PyStr("cheap")}

\* What kb_client.retrieve returns: nothing, or knowledge items
KnowledgeResults == {<<>>, <<Dict([content |-> PyStr("Rome is in Italy")])>>}

IdeationIdle ==
    [pc |-> "idle", via |-> "direct", query |-> PyStr(""), preferences |-> Dict(EmptyDict),
     knowledge_base |-> FALSE, loaded |-> FALSE, ret |-> NoReturn]

(***************************************************************************)
(* The calls as a state machine.                                           *)
(***************************************************************************)

VARIABLES
    response,      \* response[c]: the argument of call c
    pc,            \* pc[c]: where call c is
    lines,         \* lines[c]: response.strip().split('\n')
    i,             \* i[c]: index in lines[c] of the next line of the loop
    ideas,         \* ideas[f]: the local list ideas of the call with frame f
    current_idea,  \* current_idea[f]: the local current_idea, None or Some(idea)
    result,        \* result[c]: the value call c returned
    caught,        \* caught[c]: the except clause of call c ran
    ncalls,        \* ncalls[c]: calls caller c has made
    returned,      \* what the finished calls returned, in the order they returned
    opened_at,     \* opened_at[f]: for each idea of ideas[f], the index of its opening line
    current_at     \* current_at[f]: the index of the line that opened current_idea[f]

\* The state of the calls of parse_ideas_response
parserVars == <<response, pc, lines, i, ideas, current_idea, result, caught, ncalls,
                returned, opened_at, current_at>>

VARIABLES
    ext,           \* the running invocation of an external-system caller
    bucket,        \* bucket[key]: the object stored under key in the bookings bucket
    saved,         \* saved[id]: what is known of the last save_booking_data(id, ...)
    s3_last        \* the last call of save_booking_data or get_booking_data

VARIABLES
    bk,            \* the running invocation of the booking handler
    av,            \* the running invocation of the availability handler
    qa,            \* the running invocation of the bookings-QA handler
    chat,          \* the running invocation of the chat handler
    ideation       \* the running invocation of the ideation handler

\* The state of the handlers
handlerVars == <<bk, av, qa, chat, ideation>>

\* The handlers other than the booking handler
otherThanBooking == <<av, qa, chat, ideation>>

\* The handlers other than the availability handler
otherThanAvailability == <<bk, qa, chat, ideation>>

\* The handlers other than the bookings-QA handler
otherThanQa == <<bk, av, chat, ideation>>

\* The handlers other than the chat handler
otherThanChat == <<bk, av, qa, ideation>>

\* The handlers other than the ideation handler
otherThanIdeation == <<bk, av, qa, chat>>

\* The state outside parse_ideas_response
serviceVars == <<ext, bucket, saved, s3_last, handlerVars>>

vars == <<parserVars, serviceVars>>

\* The frame holding the locals of call c: every call has its own
SharedFrame(c) == 1

Frame(c) == c

Init ==
    /\ response = [c \in Calls |-> <<>>]
    /\ pc = [c \in Calls |-> "idle"]
    /\ lines = [c \in Calls |-> <<>>]
    /\ i = [c \in Calls |-> 1]
    /\ ideas = [c \in Calls |-> <<>>]
    /\ current_idea = [c \in Calls |-> None]
    /\ result = [c \in Calls |-> <<>>]
    /\ caught = [c \in Calls |-> FALSE]
    /\ ncalls = [c \in Calls |-> 0]
    /\ returned = <<>>
    /\ opened_at = [c \in Calls |-> <<>>]
    /\ current_at = [c \in Calls |-> 0]
    /\ ext = ExtIdle
    /\ bucket = [k \in ObjectKeys |-> NoObject]
    /\ saved = [b \in BookingIds |-> NeverSaved]
    /\ s3_last = NoStorageCall
    /\ bk = BkIdle
    /\ av = AvIdle
    /\ qa = QaIdle
    /\ chat = ChatIdle
    /\ ideation = IdeationIdle

\* The caller invokes parse_ideas_response(inp)
Invoke(c, inp) ==
    /\ pc[c] \in {"idle", "done"}
    /\ response' = [response EXCEPT ![c] = inp]
    /\ pc' = [pc EXCEPT ![c] = "try"]
    /\ result' = [result EXCEPT ![c] = <<>>]
    /\ caught' = [caught EXCEPT ![c] = FALSE]
    /\ ncalls' = [ncalls EXCEPT ![c] = @ + 1]
    /\ UNCHANGED <<lines, i, ideas, current_idea, returned, opened_at, current_at>>
    /\ UNCHANGED serviceVars

\* ideas = []; current_idea = None; the loop iterator is created
BeginStale(c) ==
    /\ pc[c] = "try"
    /\ current_idea' = [current_idea EXCEPT ![Frame(c)] = None]
    /\ current_at' = [current_at EXCEPT ![Frame(c)] = 0]
    /\ lines' = [lines EXCEPT ![c] = Split(Strip(response[c]), NL)]
    /\ i' = [i EXCEPT ![c] = 1]
    /\ pc' = [pc EXCEPT ![c] = "loop"]
    /\ UNCHANGED <<response, result, caught, ncalls, returned, ideas, opened_at>>
    /\ UNCHANGED serviceVars

Begin(c) ==
    /\ pc[c] = "try"
    /\ ideas' = [ideas EXCEPT ![Frame(c)] = <<>>]
    /\ current_idea' = [current_idea EXCEPT ![Frame(c)] = None]
    /\ opened_at' = [opened_at EXCEPT ![Frame(c)] = <<>>]
    /\ current_at' = [current_at EXCEPT ![Frame(c)] = 0]
    /\ lines' = [lines EXCEPT ![c] = Split(Strip(response[c]), NL)]
    /\ i' = [i EXCEPT ![c] = 1]
    /\ pc' = [pc EXCEPT ![c] = "loop"]
    /\ UNCHANGED <<response, result, caught, ncalls, returned>>
    /\ UNCHANGED serviceVars

\* line = line.strip() of the iteration call c is about to run
Line(c) == Strip(lines[c][i[c]])

InLoop(c) == pc[c] = "loop" /\ i[c] <= Len(lines[c])

\* The branch iteration of call c takes
BranchOf(c) == Branch(current_idea[Frame(c)], Line(c))

\* One iteration of the loop (lines 250-287)
Iteration(c) ==
    /\ ideas' = [ideas EXCEPT ![Frame(c)] =
                    IdeasAfter(@, current_idea[Frame(c)], Line(c))]
    /\ current_idea' = [current_idea EXCEPT ![Frame(c)] = CurrentAfter(@, Line(c))]
    /\ opened_at' = [opened_at EXCEPT ![Frame(c)] =
                        IF BranchOf(c) = "open" /\ HasTitle(current_idea[Frame(c)])
                        THEN AppendIdea(@, current_at[Frame(c)]) ELSE @]
    /\ current_at' = [current_at EXCEPT ![Frame(c)] =
                        IF BranchOf(c) = "open" THEN i[c] ELSE @]
    /\ i' = [i EXCEPT ![c] = @ + 1]
    /\ UNCHANGED <<response, pc, lines, result, caught, ncalls, returned>>
    /\ UNCHANGED serviceVars

\* if not line: continue
SkipEmptyLine(c) == InLoop(c) /\ BranchOf(c) = "skip" /\ Iteration(c)

\* a title line: save the idea in progress, start a new one
OpenBlock(c) == InLoop(c) /\ BranchOf(c) = "open" /\ Iteration(c)

\* elif current_idea: is false
IgnoreBeforeFirstBlock(c) == InLoop(c) /\ BranchOf(c) = "nocurrent" /\ Iteration(c)

SetDescription(c) == InLoop(c) /\ BranchOf(c) = "description" /\ Iteration(c)

AddHighlight(c) == InLoop(c) /\ BranchOf(c) = "highlight" /\ Iteration(c)

SetDuration(c) == InLoop(c) /\ BranchOf(c) = "duration" /\ Iteration(c)

ExtendDescription(c) == InLoop(c) /\ BranchOf(c) = "continuation" /\ Iteration(c)

AddBullet(c) == InLoop(c) /\ BranchOf(c) = "bullet" /\ Iteration(c)

\* no branch of the chain matches
DropLine(c) == InLoop(c) /\ BranchOf(c) = "drop" /\ Iteration(c)

\* The loop is exhausted; the last idea is saved
EndLoop(c) ==
    /\ pc[c] = "loop"
    /\ i[c] > Len(lines[c])
    /\ ideas' = [ideas EXCEPT ![Frame(c)] = IdeasAtEnd(@, current_idea[Frame(c)])]
    /\ opened_at' = [opened_at EXCEPT ![Frame(c)] =
                        IF HasTitle(current_idea[Frame(c)])
                        THEN AppendIdea(@, current_at[Frame(c)]) ELSE @]
    /\ pc' = [pc EXCEPT ![c] = "return"]
    /\ UNCHANGED <<response, lines, i, current_idea, result, caught, ncalls,
                   returned, current_at>>
    /\ UNCHANGED serviceVars

\* What a caller observes of a finished call: the argument, the value
\* returned, and the calls of other callers in progress at that moment
Outcome(c, value) ==
    [caller |-> c, response |-> response[c], result |-> value,
     inflight |-> {d \in Calls \ {c} : pc[d] \notin {"idle", "done"}}]

\* return ideas, or the fallback when ideas is empty
Return(c) ==
    /\ pc[c] = "return"
    /\ result' = [result EXCEPT ![c] = ReturnValue(ideas[Frame(c)], response[c])]
    /\ returned' = Append(returned, Outcome(c, result'[c]))
    /\ pc' = [pc EXCEPT ![c] = "done"]
    /\ UNCHANGED <<response, lines, i, ideas, current_idea, caught, ncalls,
                   opened_at, current_at>>
    /\ UNCHANGED serviceVars

\* A statement of the try body raises an Exception
Raise(c) ==
    /\ pc[c] \in {"try", "loop", "return"}
    /\ pc' = [pc EXCEPT ![c] = "except"]
    /\ UNCHANGED <<response, lines, i, ideas, current_idea, result, caught,
                   ncalls, returned, opened_at, current_at>>
    /\ UNCHANGED serviceVars

\* except Exception: log, return the fallback
ExceptReraise(c) ==
    /\ pc[c] = "except"
    /\ caught' = [caught EXCEPT ![c] = TRUE]
    /\ pc' = [pc EXCEPT ![c] = "propagated"]
    /\ UNCHANGED <<response, lines, i, ideas, current_idea, result, ncalls,
                   returned, opened_at, current_at>>
    /\ UNCHANGED serviceVars

Except(c) ==
    /\ pc[c] = "except"
    /\ caught' = [caught EXCEPT ![c] = TRUE]
    /\ result' = [result EXCEPT ![c] = <<FallbackRecord(response[c])>>]
    /\ returned' = Append(returned, Outcome(c, result'[c]))
    /\ pc' = [pc EXCEPT ![c] = "done"]
    /\ UNCHANGED <<response, lines, i, ideas, current_idea, ncalls,
                   opened_at, current_at>>
    /\ UNCHANGED serviceVars

Step(c) ==
    \/ Begin(c)
    \/ SkipEmptyLine(c)
    \/ OpenBlock(c)
    \/ IgnoreBeforeFirstBlock(c)
    \/ SetDescription(c)
    \/ AddHighlight(c)
    \/ SetDuration(c)
    \/ ExtendDescription(c)
    \/ AddBullet(c)
    \/ DropLine(c)
    \/ EndLoop(c)
    \/ Return(c)

\* One call on any input text
Next ==
    \/ ncalls[1] = 0 /\ \E inp \in Inputs : Invoke(1, inp)
    \/ Step(1)

Spec == Init /\ [][Next]_vars

\* One call in which any statement of the try body may raise
NextFault ==
    \/ ncalls[1] = 0 /\ \E inp \in Inputs : Invoke(1, inp)
    \/ Step(1)
    \/ Raise(1)
    \/ Except(1)

SpecFault == Init /\ [][NextFault]_vars

\* Two callers, each making calls one after the other, their steps interleaved
NextPair ==
    \E c \in Calls :
        \/ ncalls[1] + ncalls[2] < MaxCalls /\ \E inp \in PairInputs : Invoke(c, inp)
        \/ Step(c)

SpecPair == Init /\ [][NextPair]_vars

(***************************************************************************)
(* The external-system callers as a state machine: one invocation at a     *)
(* time, from the call to the value returned.                              *)
(***************************************************************************)

\* A caller is invoked directly; valid: the arguments can be processed
\* (add_loyalty_points computes points from amount before the request)
InvokeCaller(fn, url, valid) ==
    /\ ext.pc \in {"idle", "done"}
    /\ valid \/ fn = "add_loyalty_points"
    /\ ext' = [fn |-> fn, via |-> "direct", pc |-> "try", url |-> url,
               valid |-> valid, sent |-> 0, resp |-> NoResponse, ret |-> NoReturn]
    /\ UNCHANGED <<parserVars, handlerVars, bucket, saved, s3_last>>

\* A check_*_availability or process_*_booking function is invoked;
\* valid: the required parameters are present
InvokeWrapper(w, url, valid) ==
    /\ ext.pc \in {"idle", "done"}
    /\ ext' = [fn |-> CallerOf[w], via |-> w, pc |-> "check", url |-> url,
               valid |-> valid, sent |-> 0, resp |-> NoResponse, ret |-> NoReturn]
    /\ UNCHANGED <<parserVars, handlerVars, bucket, saved, s3_last>>

\* if not all([...]): return the error record
WrapperReject ==
    /\ ext.pc = "check"
    /\ ~ext.valid
    /\ ext' = [ext EXCEPT !.pc = "done", !.ret = MissingParameters(ext.via)]
    /\ UNCHANGED <<parserVars, handlerVars, bucket, saved, s3_last>>

\* The system URL is not configured: the simulate_* function answers
WrapperSimulate ==
    /\ ext.pc = "check"
    /\ ext.valid
    /\ ~ext.url
    /\ \E value \in Simulated(ext.via) :
           ext' = [ext EXCEPT !.pc = "done", !.ret = value]
    /\ UNCHANGED <<parserVars, handlerVars, bucket, saved, s3_last>>

\* The system URL is configured: the wrapper calls the caller
WrapperCall ==
    /\ ext.pc = "check"
    /\ ext.valid
    /\ ext.url
    /\ ext' = [ext EXCEPT !.pc = "try"]
    /\ UNCHANGED <<parserVars, handlerVars, bucket, saved, s3_last>>

\* The caller finds no URL, or cannot compute the request from its
\* arguments: it returns its failure value without a request
ReturnWithoutRequest ==
    /\ ext.pc = "try"
    /\ ~ext.url \/ ~ext.valid
    /\ ext' = [ext EXCEPT !.pc = "done",
                          !.ret = Failure(ext.fn, ExceptionMessage(ext.fn))]
    /\ UNCHANGED <<parserVars, handlerVars, bucket, saved, s3_last>>

\* requests.post / requests.get is called
SendRequest ==
    /\ ext.pc = "try"
    /\ ext.url
    /\ ext.valid
    /\ ext' = [ext EXCEPT !.pc = "awaiting", !.sent = @ + 1]
    /\ UNCHANGED <<parserVars, handlerVars, bucket, saved, s3_last>>

\* requests.post / requests.get returns a response or raises
ReceiveResponse ==
    /\ ext.pc = "awaiting"
    /\ \E resp \in Responses(ext.fn) :
           ext' = [ext EXCEPT !.pc = "responded", !.resp = resp]
    /\ UNCHANGED <<parserVars, handlerVars, bucket, saved, s3_last>>

\* The response is processed and the caller returns
ProcessResponseRetry ==
    /\ ext.pc = "responded"
    /\ IF (ext.resp.kind = "exception" \/ ~IsSuccess(ext.resp)) /\ ext.sent < 3
       THEN ext' = [ext EXCEPT !.pc = "try"]
       ELSE ext' = [ext EXCEPT !.pc = "done", !.ret = CallerReturn(ext.fn, ext.resp)]
    /\ UNCHANGED <<parserVars, handlerVars, bucket, saved, s3_last>>

ProcessResponse ==
    /\ ext.pc = "responded"
    /\ ext' = [ext EXCEPT !.pc = "done", !.ret = CallerReturn(ext.fn, ext.resp)]
    /\ UNCHANGED <<parserVars, handlerVars, bucket, saved, s3_last>>

NextExternal ==
    \/ \E fn \in Callers, url \in BOOLEAN, valid \in BOOLEAN :
           InvokeCaller(fn, url, valid)
    \/ \E w \in Wrappers, url \in BOOLEAN, valid \in BOOLEAN :
           InvokeWrapper(w, url, valid)
    \/ WrapperReject
    \/ WrapperSimulate
    \/ WrapperCall
    \/ ReturnWithoutRequest
    \/ SendRequest
    \/ ReceiveResponse
    \/ ProcessResponse

SpecExternal == Init /\ [][NextExternal]_vars

(***************************************************************************)
(* The booking storage as a state machine.                                 *)
(***************************************************************************)

\* What save_booking_data(booking_id, booking_data) does to the storage
PutBookingData(booking_id, booking_data, outcome) ==
    /\ bucket' = IF outcome \in {"stored", "stored_reply_lost"}
                 THEN [bucket EXCEPT ![ObjectKey(booking_id)] = Dumps(booking_data)]
                 ELSE bucket
    /\ saved' = [saved EXCEPT ![booking_id] =
                    CASE outcome = "stored" -> [state |-> "ok", data |-> booking_data]
                      [] outcome = "rejected" -> @
                      [] outcome = "stored_reply_lost" ->
                            [state |-> "unsure", data |-> booking_data]]
    /\ s3_last' = [op |-> "save", id |-> booking_id, outcome |-> outcome,
                   ret |-> Bool(outcome = "stored")]

\* save_booking_data(booking_id, booking_data)
SaveBookingData(booking_id, booking_data, outcome) ==
    /\ PutBookingData(booking_id, booking_data, outcome)
    /\ UNCHANGED <<parserVars, handlerVars, ext>>

\* get_booking_data(booking_id)
GetBookingData(booking_id, outcome) ==
    /\ s3_last' = [op |-> "get", id |-> booking_id, outcome |-> outcome,
                   ret |-> GetBookingDataReturn(bucket, booking_id, outcome)]
    /\ UNCHANGED <<parserVars, handlerVars, ext, bucket, saved>>

NextStorage ==
    \/ \E b \in BookingIds, d \in BookingData, o \in PutOutcomes :
           SaveBookingData(b, d, o)
    \/ \E b \in BookingIds, o \in GetOutcomes : GetBookingData(b, o)

SpecStorage == Init /\ [][NextStorage]_vars

(***************************************************************************)
(* The booking handler as a state machine                                  *)
(* (lambda_handler of src/src/lambda_booking/app.py).                      *)
(***************************************************************************)

\* The record of the except clause, in the shape of the invocation
InternalError(via) ==
    IF HasBody(via) THEN CreateResponse(500, Err("Internal server error"))
    ELSE Err("Internal server error")

\* result returned in the shape of the invocation (lines 128-131)
ReturnOf(via, value) == IF HasBody(via) THEN CreateResponse(200, value) ELSE value

\* The validation as it would be without the user_info check of lines 71-72
BookingRequestErrorNoUser(via, booking_type, details, user_info) ==
    IF via = "malformed" THEN InternalError(via)
    ELSE IF booking_type = <<>> THEN CreateResponse(400, Err("Missing required parameter: type"))
    ELSE IF ~Truthy(details)
         THEN CreateResponse(400, Err("Missing required parameter: details"))
    ELSE IF TypeOf(booking_type) = "unsupported"
         THEN CreateResponse(400, Err("Unsupported booking type"))
    ELSE NoReturn

\* What lines 47-94 return before any booking is made, NoReturn when the
\* request passes
BookingRequestError(via, booking_type, details, user_info) ==
    IF via = "malformed" THEN InternalError(via)
    ELSE IF booking_type = <<>> THEN CreateResponse(400, Err("Missing required parameter: type"))
    ELSE IF ~Truthy(details)
         THEN CreateResponse(400, Err("Missing required parameter: details"))
    ELSE IF ~Truthy(user_info)
         THEN CreateResponse(400, Err("Missing required parameter: user_info"))
    ELSE IF TypeOf(booking_type) = "unsupported"
         THEN CreateResponse(400, Err("Unsupported booking type"))
    ELSE NoReturn

\* points of add_loyalty_points: int(amount * 0.1), int(amount * 0.2) for a flight
PointsFor(booking_type, amount) ==
    IF Lower(booking_type) = <<"f", "l", "i", "g", "h", "t">> THEN (amount * 2) \div 10 ELSE amount \div 10

\* The handler is invoked; the URLs of the external systems are read from the
\* environment when the module is loaded and stay.  uuids: the ids uuid4
\* generates in the run, each once
BookingInvoke(via, request, user_info, url, loyalty_url, uuids) ==
    /\ bk.pc = "idle"
    /\ \/ uuids \ bk.issued # {}
       \/ BookingRequestError(via, request.type, request.details, user_info) # NoReturn
    /\ bk.loaded => url = bk.url /\ loyalty_url = bk.loyalty_url
    /\ bk' = [BkIdle EXCEPT !.pc = "parse", !.via = via, !.type = request.type,
                            !.details = request.details, !.user_info = user_info,
                            !.url = url, !.loyalty_url = loyalty_url,
                            !.issued = bk.issued, !.uuids = uuids,
                            !.loaded = TRUE]
    /\ UNCHANGED <<parserVars, ext, bucket, saved, s3_last>>
    /\ UNCHANGED otherThanBooking

\* Lines 47-94: the request is rejected
BookingReject ==
    /\ bk.pc = "parse"
    /\ BookingRequestError(bk.via, bk.type, bk.details, bk.user_info) # NoReturn
    /\ bk' = [bk EXCEPT !.pc = "done",
                        !.ret = BookingRequestError(bk.via, bk.type, bk.details,
                                                    bk.user_info)]
    /\ UNCHANGED <<parserVars, ext, bucket, saved, s3_last>>
    /\ UNCHANGED otherThanBooking

\* Lines 47-90: the request passes and gets its booking_id, a uuid
BookingAccept ==
    /\ bk.pc = "parse"
    /\ BookingRequestError(bk.via, bk.type, bk.details, bk.user_info) = NoReturn
    /\ \E booking_id \in bk.uuids \ bk.issued :
           bk' = [bk EXCEPT !.pc = "process", !.id = booking_id,
                            !.issued = @ \cup {booking_id},
                            !.calls = CallsOf(TypeOf(bk.type), booking_id, bk.details)]
    /\ UNCHANGED <<parserVars, ext, bucket, saved, s3_last>>
    /\ UNCHANGED otherThanBooking

\* One call of process_flight_booking, process_hotel_booking or
\* process_activity_booking, made for the request or for a component of
\* its package
BookingCall ==
    /\ bk.pc = "process"
    /\ Len(bk.results) < Len(bk.calls)
    /\ LET call == bk.calls[Len(bk.results) + 1]
       IN  IF ReachesBookingSystem(call.kind, call.details, bk.url)
           THEN \E resp \in Answers("call_booking_system") :
                    bk' = [bk EXCEPT !.results = Append(@, CallResult(call, bk.url, resp)),
                                     !.accepted = IF Accepted(resp) THEN @ \cup {call.id}
                                                  ELSE @]
           ELSE bk' = [bk EXCEPT !.results = Append(@, CallResult(call, bk.url, NoResponse))]
    /\ UNCHANGED <<parserVars, ext, bucket, saved, s3_last>>
    /\ UNCHANGED otherThanBooking

\* Lines 96-98 after the calls: a result with an error is returned as a 400
BookingConclude ==
    /\ bk.pc = "process"
    /\ Len(bk.results) = Len(bk.calls)
    /\ LET booking_result == BookingResult(TypeOf(bk.type), bk.id, bk.details, bk.results)
       IN  IF Has(booking_result, "error")
           THEN bk' = [bk EXCEPT !.pc = "done", !.result = booking_result,
                                 !.ret = CreateResponse(400, booking_result)]
           ELSE bk' = [bk EXCEPT !.pc = "store", !.result = booking_result]
    /\ UNCHANGED <<parserVars, ext, bucket, saved, s3_last>>
    /\ UNCHANGED otherThanBooking

\* Lines 100-111: s3_client.save_booking_data(booking_id, booking_data), its
\* return value is dropped
BookingStore ==
    /\ bk.pc = "store"
    /\ \E outcome \in PutOutcomes :
           /\ PutBookingData(bk.id,
                             BookingDataOf(bk.id, PyText(bk.type), bk.details,
                                           bk.user_info, bk.result),
                             outcome)
           /\ bk' = [bk EXCEPT !.pc = "loyalty", !.saves = Append(@, outcome)]
    /\ UNCHANGED <<parserVars, ext>>
    /\ UNCHANGED otherThanBooking

\* Lines 113-131: the loyalty points and the return; user_info.get raises
\* when user_info is no dict and the except clause returns
BookingFinish ==
    /\ bk.pc = "loyalty"
    /\ IF bk.user_info[1] # "dict"
       THEN bk' = [bk EXCEPT !.pc = "done", !.ret = InternalError(bk.via)]
       ELSE IF Truthy(Get(bk.user_info, "id", PyStr(""))) /\ bk.loyalty_url
       THEN \E resp \in Answers("add_loyalty_points") :
                bk' = [bk EXCEPT
                         !.pc = "done",
                         !.points = Append(@,
                             [user_id |-> bk.user_info[2].id,
                              points |-> PointsFor(bk.type,
                                            Get(bk.result, "total_amount", PyInt(0))[2]),
                              added |-> CallerReturn("add_loyalty_points", resp)]),
                         !.ret = ReturnOf(bk.via, Confirmation(bk.id, bk.result))]
       ELSE bk' = [bk EXCEPT !.pc = "done",
                             !.ret = ReturnOf(bk.via, Confirmation(bk.id, bk.result))]
    /\ UNCHANGED <<parserVars, ext, bucket, saved, s3_last>>
    /\ UNCHANGED otherThanBooking

\* The invoker has the returned value; the locals of the invocation are gone
BookingReturn ==
    /\ bk.pc = "done"
    /\ bk' = [BkIdle EXCEPT !.url = bk.url, !.loyalty_url = bk.loyalty_url,
                            !.issued = bk.issued, !.uuids = bk.uuids,
                            !.loaded = TRUE]
    /\ UNCHANGED <<parserVars, ext, bucket, saved, s3_last>>
    /\ UNCHANGED otherThanBooking

NextBooking ==
    \/ \E via \in Vias, request \in BookingRequests, user_info \in UserInfos,
          url \in BOOLEAN, loyalty_url \in BOOLEAN :
           BookingInvoke(via, request, user_info, url, loyalty_url, {"b1"})
    \/ BookingReject
    \/ BookingAccept
    \/ BookingCall
    \/ BookingConclude
    \/ BookingStore
    \/ BookingFinish
    \/ BookingReturn

SpecBooking == Init /\ [][NextBooking]_vars

(***************************************************************************)
(* lambda_availability/app.py: lambda_handler as a state machine.          *)
(***************************************************************************)

\* What lines 42-84 return before any check is made, NoReturn when the
\* request passes; a type that is no str raises at request_type.lower()
AvailabilityRequestError(via, request_type, params) ==
    IF via = "malformed" THEN InternalError(via)
    ELSE IF ~Truthy(request_type)
         THEN CreateResponse(400, Err("Missing required parameter: type"))
    ELSE IF ~Truthy(params)
         THEN CreateResponse(400, Err("Missing required parameter: params"))
    ELSE IF request_type[1] # "text" THEN InternalError(via)
    ELSE IF RequestTypeOf(request_type) = "unsupported"
         THEN CreateResponse(400, Err("Unsupported request type"))
    ELSE NoReturn

\* Lines 28-56: the handler is invoked and reads its request
AvailabilityInvoke(via, request, user_id, url, loyalty_url) ==
    /\ av.pc = "idle"
    /\ av.loaded => url = av.url /\ loyalty_url = av.loyalty_url
    /\ av' = [AvIdle EXCEPT !.pc = "parse", !.via = via, !.type = request.type,
                            !.params = request.params, !.user_id = user_id,
                            !.url = url, !.loyalty_url = loyalty_url, !.loaded = TRUE]
    /\ UNCHANGED <<parserVars, ext, bucket, saved, s3_last>>
    /\ UNCHANGED otherThanAvailability

\* Lines 58-84: the request is rejected
AvailabilityReject ==
    /\ av.pc = "parse"
    /\ AvailabilityRequestError(av.via, av.type, av.params) # NoReturn
    /\ av' = [av EXCEPT !.pc = "done",
                        !.ret = AvailabilityRequestError(av.via, av.type, av.params)]
    /\ UNCHANGED <<parserVars, ext, bucket, saved, s3_last>>
    /\ UNCHANGED otherThanAvailability

\* Lines 58-80: the request passes
AvailabilityAccept ==
    /\ av.pc = "parse"
    /\ AvailabilityRequestError(av.via, av.type, av.params) = NoReturn
    /\ av' = [av EXCEPT !.pc = "check",
                        !.checks = ChecksOf(RequestTypeOf(av.type), av.params)]
    /\ UNCHANGED <<parserVars, ext, bucket, saved, s3_last>>
    /\ UNCHANGED otherThanAvailability

\* One call of check_flight_availability, check_hotel_availability or
\* check_activity_availability, made for the request or for a component of
\* its package
AvailabilityCheck ==
    /\ av.pc = "check"
    /\ Len(av.results) < Len(av.checks)
    /\ LET check == av.checks[Len(av.results) + 1]
       IN  IF check.kind # "none" /\ ReachesAvailabilitySystem(check.kind, check.params, av.url)
           THEN \E resp \in Answers("call_availability_system") :
                    av' = [av EXCEPT !.results = Append(@, CheckResult(check, av.url, resp))]
           ELSE av' = [av EXCEPT !.results = Append(@, CheckResult(check, av.url, NoResponse))]
    /\ UNCHANGED <<parserVars, ext, bucket, saved, s3_last>>
    /\ UNCHANGED otherThanAvailability

\* Lines 86-115: the loyalty status when a user_id came with the request,
\* the result, and the return in the shape of the invocation
AvailabilityFinish ==
    /\ av.pc = "check"
    /\ Len(av.results) = Len(av.checks)
    /\ \E resp \in IF av.user_id # "" /\ av.loyalty_url
                   THEN Answers("check_loyalty_status") ELSE {NoResponse} :
         LET loyalty_info == IF av.user_id # "" /\ av.loyalty_url
                             THEN Tagged(CallerReturn("check_loyalty_status", resp))
                             ELSE Dict(EmptyDict)
             availability_results == AvailabilityResults(RequestTypeOf(av.type), av.results)
             value == Dict([request_id |-> PyStr("uuid4"), timestamp |-> UtcNow,
                            request_type |-> av.type, search_params |-> av.params,
                            results |-> availability_results, loyalty |-> loyalty_info])
         IN  av' = [av EXCEPT !.pc = "done", !.result = availability_results,
                              !.ret = ReturnOf(av.via, value)]
    /\ UNCHANGED <<parserVars, ext, bucket, saved, s3_last>>
    /\ UNCHANGED otherThanAvailability

\* The invocation is over
AvailabilityReturn ==
    /\ av.pc = "done"
    /\ av' = [AvIdle EXCEPT !.url = av.url, !.loyalty_url = av.loyalty_url,
                            !.loaded = TRUE]
    /\ UNCHANGED <<parserVars, ext, bucket, saved, s3_last>>
    /\ UNCHANGED otherThanAvailability

NextAvailability ==
    \/ \E via \in Vias, request \in AvailabilityRequests, user_id \in UserIds,
          url \in BOOLEAN, loyalty_url \in BOOLEAN :
           AvailabilityInvoke(via, request, user_id, url, loyalty_url)
    \/ AvailabilityReject
    \/ AvailabilityAccept
    \/ AvailabilityCheck
    \/ AvailabilityFinish
    \/ AvailabilityReturn

SpecAvailability == Init /\ [][NextAvailability]_vars

(***************************************************************************)
(* lambda_bookings_qa/app.py: lambda_handler as a state machine.           *)
(***************************************************************************)

\* {'error': ..., 'answer': ...} of lines 119-137 in the shape of the invocation
QaInternalError(via) ==
    LET error_response == Dict([error |-> PyStr(<<"Internal server error", 0>>),
                                answer |-> PyStr(<<"I apologize", 0>>)])
    IN  IF HasBody(via) THEN CreateResponse(500, error_response) ELSE error_response

\* The response of lines 89-93
NoBookingDataFound ==
    CreateResponse(404, Dict([error |-> PyStr(<<"No booking data found", 0>>),
                              answer |-> PyStr(<<"I could not find any booking information", 0>>)]))

\* What lines 45-66 return before the storage is read, NoReturn when the
\* request passes
QaRequestError(via, query, user_id, booking_id) ==
    IF via = "malformed" THEN QaInternalError(via)
    ELSE IF ~Truthy(query) THEN CreateResponse(400, Err("Missing required parameter: query"))
    ELSE IF user_id = "" /\ booking_id = ""
         THEN CreateResponse(400, Err("Missing required parameter: either user_id or booking_id must be provided"))
    ELSE NoReturn

\* get_booking_data(booking_id), as the storage sees it
ReadBookingData(booking_id, outcome) ==
    s3_last' = [op |-> "get", id |-> booking_id, outcome |-> outcome,
                ret |-> GetBookingDataReturn(bucket, booking_id, outcome)]

\* Lines 28-56: the handler is invoked and reads its request
QaInvoke(via, query, user_id, booking_id) ==
    /\ qa.pc = "idle"
    /\ qa' = [QaIdle EXCEPT !.pc = "parse", !.via = via, !.query = query,
                            !.user_id = user_id, !.booking_id = booking_id]
    /\ UNCHANGED <<parserVars, ext, bucket, saved, s3_last>>
    /\ UNCHANGED otherThanQa

\* Lines 58-66: the request is rejected
QaReject ==
    /\ qa.pc = "parse"
    /\ QaRequestError(qa.via, qa.query, qa.user_id, qa.booking_id) # NoReturn
    /\ qa' = [qa EXCEPT !.pc = "done",
                        !.ret = QaRequestError(qa.via, qa.query, qa.user_id, qa.booking_id)]
    /\ UNCHANGED <<parserVars, ext, bucket, saved, s3_last>>
    /\ UNCHANGED otherThanQa

\* Lines 70-74: a booking_id was given, the booking is read by its id
QaLookup ==
    /\ qa.pc = "parse"
    /\ QaRequestError(qa.via, qa.query, qa.user_id, qa.booking_id) = NoReturn
    /\ qa.booking_id # ""
    /\ \E outcome \in GetOutcomes :
         LET booking == GetBookingDataReturn(bucket, qa.booking_id, outcome)
         IN  /\ ReadBookingData(qa.booking_id, outcome)
             /\ qa' = [qa EXCEPT !.pc = "found",
                                 !.booking_data = IF Truthy(booking) THEN <<booking>>
                                                  ELSE <<>>]
    /\ UNCHANGED <<parserVars, ext, bucket, saved>>
    /\ UNCHANGED otherThanQa

\* Lines 75-79: only a user_id was given, the bookings are listed;
\* list_objects catches ClientError only
QaList ==
    /\ qa.pc = "parse"
    /\ QaRequestError(qa.via, qa.query, qa.user_id, qa.booking_id) = NoReturn
    /\ qa.booking_id = ""
    /\ \E outcome \in GetOutcomes :
         IF outcome = "other_error"
         THEN qa' = [qa EXCEPT !.pc = "done", !.ret = QaInternalError(qa.via)]
         ELSE qa' = [qa EXCEPT !.pc = "scan", !.keys = ListObjectsReturn(bucket, outcome)]
    /\ UNCHANGED <<parserVars, ext, bucket, saved, s3_last>>
    /\ UNCHANGED otherThanQa

\* Lines 81-86: one listed object is read and kept when its user_info.id is
\* the user_id; get_object catches ClientError only
QaGetObject ==
    /\ qa.pc = "scan"
    /\ qa.keys # <<>>
    /\ \E outcome \in GetOutcomes :
         LET data == GetObjectData(bucket, Head(qa.keys), outcome)
         IN  IF outcome = "other_error" \/ (data # NoObject /\ OwnerRaises(Loads(data)))
             THEN qa' = [qa EXCEPT !.pc = "done", !.ret = QaInternalError(qa.via)]
             ELSE qa' = [qa EXCEPT
                           !.keys = Tail(@),
                           !.booking_data =
                               IF data # NoObject /\ OwnedBy(Loads(data), qa.user_id)
                               THEN Append(@, Loads(data)) ELSE @]
    /\ UNCHANGED <<parserVars, ext, bucket, saved, s3_last>>
    /\ UNCHANGED otherThanQa

\* Lines 88-93: no booking was found
QaNotFound ==
    /\ qa.pc = "found" \/ (qa.pc = "scan" /\ qa.keys = <<>>)
    /\ qa.booking_data = <<>>
    /\ qa' = [qa EXCEPT !.pc = "done", !.ret = NoBookingDataFound]
    /\ UNCHANGED <<parserVars, ext, bucket, saved, s3_last>>
    /\ UNCHANGED otherThanQa

\* Lines 95-122: the context is formatted, the model is invoked with it and
\* the answer is returned in the shape of the invocation
QaAnswer ==
    /\ qa.pc = "found" \/ (qa.pc = "scan" /\ qa.keys = <<>>)
    /\ qa.booking_data # <<>>
    /\ \E answer \in ModelAnswers :
         qa' = [qa EXCEPT
                  !.pc = "done",
                  !.invoked = @ + 1,
                  !.context = FormatBookingContext(qa.booking_data),
                  !.ret = ReturnOf(qa.via,
                             Dict([query |-> qa.query, answer |-> answer,
                                   booking_count |-> PyInt(Len(qa.booking_data)),
                                   has_booking_data |-> Bool(TRUE),
                                   timestamp |-> UtcNow]))]
    /\ UNCHANGED <<parserVars, ext, bucket, saved, s3_last>>
    /\ UNCHANGED otherThanQa

\* The invocation is over
QaReturn ==
    /\ qa.pc = "done"
    /\ qa' = QaIdle
    /\ UNCHANGED <<parserVars, ext, bucket, saved, s3_last>>
    /\ UNCHANGED otherThanQa

\* The bookings made while questions are asked
QaBookingRequests ==
    {[type |-> <<"F", "l", "i", "g", "h", "t">>, details |-> GoodFlight(n)] : n \in 1..MaxPeople}
    \cup {[type |-> <<"h", "o", "t", "e", "l">>, details |-> GoodHotel(1)],
          [type |-> <<"a", "c", "t", "i", "v", "i", "t", "y">>, details |-> GoodActivity(1)],
          [type |-> <<"c", "r", "u", "i", "s", "e">>, details |-> GoodFlight(1)]}

QaUserInfos == {Dict([id |-> PyStr("u1")]), Dict([id |-> PyStr("u2")]), PyStr("ann")}

\* One invocation runs at a time: a booking is made to its end between two
\* questions
NextQa ==
    \/ /\ qa.pc = "idle"
       /\ \E request \in QaBookingRequests, user_info \in QaUserInfos :
              BookingInvoke("direct", request, user_info, FALSE, FALSE, BookingIds)
    \/ BookingReject
    \/ BookingAccept
    \/ BookingCall
    \/ BookingConclude
    \/ BookingStore
    \/ BookingFinish
    \/ BookingReturn
    \/ /\ bk.pc = "idle"
       /\ \E via \in Vias, query \in Queries, user_id \in QaUserIds,
             booking_id \in QaBookingIds :
              QaInvoke(via, query, user_id, booking_id)
    \/ QaReject
    \/ QaLookup
    \/ QaList
    \/ QaGetObject
    \/ QaNotFound
    \/ QaAnswer
    \/ QaReturn

SpecQa == Init /\ [][NextQa]_vars

(***************************************************************************)
(* lambda_chat_client/app.py: lambda_handler as a state machine.           *)
(***************************************************************************)

\* What lines 42-57 return before the session is set up, NoReturn when the
\* request passes; the body is parsed whatever the invocation, an event
\* without a body gives no message
ChatRequestError(via, message) ==
    IF via = "malformed" THEN CreateResponse(500, Err("Internal server error"))
    ELSE IF via = "direct" \/ ~Truthy(message)
         THEN CreateResponse(400, Err("Missing required parameter: message"))
    ELSE NoReturn

\* Lines 28-52: the handler is invoked and reads its request; a client
\* sends no session id, one it made up, or one a response gave it
ChatInvoke(via, message, session_id, user_id, guardrails) ==
    /\ chat.pc = "idle"
    /\ session_id \in {""} \cup ClientSessionIds \cup chat.issued
    /\ \/ session_id # ""
       \/ GeneratedSessionIds \ chat.issued # {}
       \/ ChatRequestError(via, message) # NoReturn
    /\ chat.loaded => guardrails = chat.guardrails
    /\ chat' = [ChatIdle EXCEPT !.pc = "parse", !.via = via, !.message = message,
                                !.request_session_id = session_id, !.user_id = user_id,
                                !.guardrails = guardrails, !.loaded = TRUE,
                                !.issued = chat.issued]
    /\ UNCHANGED <<parserVars, ext, bucket, saved, s3_last>>
    /\ UNCHANGED otherThanChat

\* Lines 54-57: the request is rejected
ChatReject ==
    /\ chat.pc = "parse"
    /\ ChatRequestError(chat.via, chat.message) # NoReturn
    /\ chat' = [chat EXCEPT !.pc = "done", !.ret = ChatRequestError(chat.via, chat.message)]
    /\ UNCHANGED <<parserVars, ext, bucket, saved, s3_last>>
    /\ UNCHANGED otherThanChat

\* Lines 59-65: the session id is kept or generated, and the conversation
\* context is created
ChatSession ==
    /\ chat.pc = "parse"
    /\ ChatRequestError(chat.via, chat.message) = NoReturn
    /\ \E session_id \in IF chat.request_session_id # "" THEN {chat.request_session_id}
                         ELSE GeneratedSessionIds \ chat.issued :
           chat' = [chat EXCEPT
                      !.pc = "route",
                      !.session_id = session_id,
                      !.issued = IF chat.request_session_id # "" THEN @
                                 ELSE @ \cup {session_id},
                      !.context = CreateConversationContext(chat.user_id, session_id)]
    /\ UNCHANGED <<parserVars, ext, bucket, saved, s3_last>>
    /\ UNCHANGED otherThanChat

\* Lines 67-90: the message goes through the guardrails agent; a flagged
\* message is answered at once
ChatGuardrails ==
    /\ chat.pc = "route"
    /\ chat.guardrails
    /\ \E response_text \in Completions :
           chat' = [chat EXCEPT
                      !.agent_sessions = Append(@, chat.session_id),
                      !.response_text = response_text,
                      !.pc = IF Flagged(response_text) THEN "done" ELSE "respond",
                      !.ret = IF Flagged(response_text)
                              THEN CreateResponse(200,
                                       Dict([message |-> PyText(response_text),
                                             session_id |-> PyStr(chat.session_id),
                                             flagged |-> Bool(TRUE)]))
                              ELSE @]
    /\ UNCHANGED <<parserVars, ext, bucket, saved, s3_last>>
    /\ UNCHANGED otherThanChat

\* Lines 91-94: no guardrails agent is configured
ChatNoGuardrails ==
    /\ chat.pc = "route"
    /\ ~chat.guardrails
    /\ chat' = [chat EXCEPT !.pc = "respond", !.response_text = NoGuardrailsReply]
    /\ UNCHANGED <<parserVars, ext, bucket, saved, s3_last>>
    /\ UNCHANGED otherThanChat

\* Lines 100-104: the response
ChatRespond ==
    /\ chat.pc = "respond"
    /\ chat' = [chat EXCEPT
                  !.pc = "done",
                  !.ret = CreateResponse(200,
                             Dict([message |-> PyText(IF chat.response_text # <<>>
                                                      THEN chat.response_text
                                                      ELSE DefaultReply),
                                   session_id |-> PyStr(chat.session_id),
                                   context |-> chat.context]))]
    /\ UNCHANGED <<parserVars, ext, bucket, saved, s3_last>>
    /\ UNCHANGED otherThanChat

\* The invocation is over
ChatReturn ==
    /\ chat.pc = "done"
    /\ chat' = [ChatIdle EXCEPT !.guardrails = chat.guardrails, !.loaded = TRUE,
                                !.issued = chat.issued]
    /\ UNCHANGED <<parserVars, ext, bucket, saved, s3_last>>
    /\ UNCHANGED otherThanChat

NextChat ==
    \/ \E via \in Vias, message \in Messages,
          session_id \in {""} \cup ClientSessionIds \cup GeneratedSessionIds,
          user_id \in UserIds, guardrails \in BOOLEAN :
           ChatInvoke(via, message, session_id, user_id, guardrails)
    \/ ChatReject
    \/ ChatSession
    \/ ChatGuardrails
    \/ ChatNoGuardrails
    \/ ChatRespond
    \/ ChatReturn

SpecChat == Init /\ [][NextChat]_vars

(***************************************************************************)
(* lambda_ideation/app.py: lambda_handler as a state machine.              *)
(***************************************************************************)

\* What lines 45-62 return before any idea is generated, NoReturn when the
\* request passes
IdeationRequestError(via, query) ==
    IF via = "malformed" THEN InternalError(via)
    ELSE IF ~Truthy(query) THEN CreateResponse(400, Err("Missing required parameter: query"))
    ELSE NoReturn

\* Lines 28-57: the handler is invoked and reads its request
IdeationInvoke(via, query, preferences, knowledge_base) ==
    /\ ideation.pc = "idle"
    /\ ideation.loaded => knowledge_base = ideation.knowledge_base
    /\ ideation' = [IdeationIdle EXCEPT !.pc = "parse", !.via = via, !.query = query,
                                        !.preferences = preferences,
                                        !.knowledge_base = knowledge_base,
                                        !.loaded = TRUE]
    /\ UNCHANGED <<parserVars, ext, bucket, saved, s3_last>>
    /\ UNCHANGED otherThanIdeation

\* Lines 59-62: the request is rejected
IdeationReject ==
    /\ ideation.pc = "parse"
    /\ IdeationRequestError(ideation.via, ideation.query) # NoReturn
    /\ ideation' = [ideation EXCEPT
                      !.pc = "done",
                      !.ret = IdeationRequestError(ideation.via, ideation.query)]
    /\ UNCHANGED <<parserVars, ext, bucket, saved, s3_last>>
    /\ UNCHANGED otherThanIdeation

\* Lines 64-122: the knowledge is retrieved, the preferences are formatted
\* (which raises when they are no dict), the ideas are generated and parsed,
\* and the result is returned in the shape of the invocation
IdeationGenerate ==
    /\ ideation.pc = "parse"
    /\ IdeationRequestError(ideation.via, ideation.query) = NoReturn
    /\ \E kb_results \in IF ideation.knowledge_base THEN KnowledgeResults ELSE {<<>>},
          ideas_response \in IdeationTexts :
           ideation' = [ideation EXCEPT
                          !.pc = "done",
                          !.ret = IF Truthy(ideation.preferences)
                                     /\ ideation.preferences[1] # "dict"
                                  THEN InternalError(ideation.via)
                                  ELSE ReturnOf(ideation.via,
                                          Dict([query |-> ideation.query,
                                                ideas |-> IdeasValue(ideas_response),
                                                knowledge_used |-> Bool(kb_results # <<>>),
                                                timestamp |-> UtcNow]))]
    /\ UNCHANGED <<parserVars, ext, bucket, saved, s3_last>>
    /\ UNCHANGED otherThanIdeation

\* The invocation is over
IdeationReturn ==
    /\ ideation.pc = "done"
    /\ ideation' = [IdeationIdle EXCEPT !.knowledge_base = ideation.knowledge_base,
                                        !.loaded = TRUE]
    /\ UNCHANGED <<parserVars, ext, bucket, saved, s3_last>>
    /\ UNCHANGED otherThanIdeation

(***************************************************************************)
(* The four handlers that take gateway and direct invocations, one         *)
(* invocation at a time.                                                   *)
(***************************************************************************)

NoHandlerRuns ==
    /\ av.pc = "idle"
    /\ bk.pc = "idle"
    /\ qa.pc = "idle"
    /\ ideation.pc = "idle"

\* The requests given to the handlers in turn
HandlerAvailabilityRequests ==
    {r \in AvailabilityRequests :
        r.type[1] = "int" \/ Lower(r.type[2]) # <<"p", "a", "c", "k", "a", "g", "e">>}

HandlerBookingRequests ==
    {[type |-> <<"F", "l", "i", "g", "h", "t">>, details |-> GoodFlight(1)],
     [type |-> <<"f", "l", "i", "g", "h", "t">>, details |-> Dict(EmptyDict)],
     [type |-> <<"h", "o", "t", "e", "l">>, details |-> GoodHotel(0)],
     [type |-> <<"c", "r", "u", "i", "s", "e">>, details |-> GoodFlight(1)]}

HandlerUserInfos == {Dict(EmptyDict), Dict([id |-> PyStr("u1")]), PyStr("ann")}

NextHandlers ==
    \/ /\ NoHandlerRuns
       /\ \E via \in Vias, request \in HandlerAvailabilityRequests :
              AvailabilityInvoke(via, request, "", FALSE, FALSE)
    \/ AvailabilityReject
    \/ AvailabilityAccept
    \/ AvailabilityCheck
    \/ AvailabilityFinish
    \/ AvailabilityReturn
    \/ /\ NoHandlerRuns
       /\ \E via \in Vias, request \in HandlerBookingRequests,
             user_info \in HandlerUserInfos :
              BookingInvoke(via, request, user_info, FALSE, FALSE, {"b1"})
    \/ BookingReject
    \/ BookingAccept
    \/ BookingCall
    \/ BookingConclude
    \/ BookingStore
    \/ BookingFinish
    \/ BookingReturn
    \/ /\ NoHandlerRuns
       /\ \E via \in Vias, query \in Queries, user_id \in {"", "u1"},
             booking_id \in {"", "b1"} :
              QaInvoke(via, query, user_id, booking_id)
    \/ QaReject
    \/ QaLookup
    \/ QaList
    \/ QaGetObject
    \/ QaNotFound
    \/ QaAnswer
    \/ QaReturn
    \/ /\ NoHandlerRuns
       /\ \E via \in Vias, query \in Queries, preferences \in Preferences,
             knowledge_base \in BOOLEAN :
              IdeationInvoke(via, query, preferences, knowledge_base)
    \/ IdeationReject
    \/ IdeationGenerate
    \/ IdeationReturn

SpecHandlers == Init /\ [][NextHandlers]_vars

(***************************************************************************)
(* Properties of parse_ideas_response.                                     *)
(***************************************************************************)

Finished(c) == pc[c] = "done"

\* The lines of a text as the properties read them: split at newlines, trimmed
TrimmedLines(text) ==
    LET ls == Split(text, NL) IN [k \in 1..Len(ls) |-> Strip(ls[k])]

\* A trimmed line starts with "1." .. "5." and has a colon
IsOpenerLine(l) ==
    /\ Len(l) >= 2
    /\ l[1] \in {"1", "2", "3", "4", "5"}
    /\ l[2] = "."
    /\ \E k \in 1..Len(l) : l[k] = ":"

\* The text after the first colon of l, trimmed
AfterFirstColon(l) ==
    LET k == MinOf({j \in 1..Len(l) : l[j] = ":"})
    IN  Strip(SubSeq(l, k + 1, Len(l)))

HasNoOpenerLine(text) ==
    \A k \in 1..Len(TrimmedLines(text)) : ~IsOpenerLine(TrimmedLines(text)[k])

TheFallback(text) ==
    [title |-> <<"T", "r", "a", "v", "e", "l", " ", "R", "e", "c", "o", "m", "m", "e", "n", "d", "a", "t", "i", "o", "n", "s">>, description |-> Strip(text),
     highlights |-> <<>>, duration |-> <<>>]

\* Call c is about to run one iteration of the loop and this step runs it
RunsIteration(c) == InLoop(c) /\ i'[c] = i[c] + 1

\* C1: whatever the input text, the value parse_ideas_response returns holds
\* at least one idea record.
C1_NeverEmpty == \A c \in Calls : Finished(c) => Len(result[c]) >= 1

C1_Witness ==
    /\ Finished(1)
    /\ response[1] # <<>>
    /\ Strip(response[1]) = <<>>
    /\ Len(result[1]) = 1

\* C2: for an input none of whose trimmed lines starts with "1." .. "5." and
\* contains a colon (the empty and the whitespace-only text included), the
\* result is exactly one record: title "Travel Recommendations", description
\* the whole input trimmed, no highlights, empty duration.
C2_FallbackWhenNoOpener ==
    \A c \in Calls :
        (Finished(c) /\ HasNoOpenerLine(response[c]))
            => result[c] = <<TheFallback(response[c])>>

C2_Witness ==
    /\ Finished(1)
    /\ HasNoOpenerLine(response[1])
    /\ Strip(response[1]) # <<>>
    /\ Strip(response[1]) # response[1]
    /\ result[1][1].description = Strip(response[1])

\* C3: the call always ends by returning a value, no error reaches the
\* caller; when a statement of the line processing raised, the value is the
\* single fallback record whose description is the trimmed input.
C3_TotalWithFallback ==
    \A c \in Calls :
        /\ pc[c] # "propagated"
        /\ Finished(c) => result[c] # <<>>
        /\ (Finished(c) /\ caught[c]) => result[c] = <<TheFallback(response[c])>>

C3_Witness ==
    /\ Finished(1)
    /\ caught[1]
    /\ ideas[Frame(1)] # <<>>
    /\ result[1] = <<TheFallback(response[1])>>

\* C4: every record of the list under construction and of the returned
\* sequence has a non-empty title.
C4_TitlesNonEmpty ==
    \A c \in Calls :
        /\ \A k \in 1..Len(ideas[c]) : ideas[c][k].title # <<>>
        /\ Finished(c) => \A k \in 1..Len(result[c]) : result[c][k].title # <<>>

\* A block with an empty title was opened first and dropped, a later one emitted
C4_Witness ==
    /\ Finished(1)
    /\ Len(lines[1]) >= 2
    /\ IsOpenerLine(Strip(lines[1][1]))
    /\ AfterFirstColon(Strip(lines[1][1])) = <<>>
    /\ Len(result[1]) = 1
    /\ result[1][1].title = <<"T">>

\* C5: the returned records are in the order of their opening lines: record
\* k was opened by line opened_at[k] (its title is the text after that
\* line's first colon), and these line numbers increase along the output.
C5_OrderPreserved ==
    \A c \in Calls :
        (Finished(c) /\ ~caught[c] /\ opened_at[Frame(c)] # <<>>) =>
            LET at == opened_at[Frame(c)] IN
            /\ Len(at) = Len(result[c])
            /\ \A k \in 1..Len(at) :
                   /\ at[k] \in 1..Len(lines[c])
                   /\ IsOpenerLine(Strip(lines[c][at[k]]))
                   /\ result[c][k].title = AfterFirstColon(Strip(lines[c][at[k]]))
            /\ \A j, k \in 1..Len(at) : j < k => at[j] < at[k]

C5_Witness ==
    /\ Finished(1)
    /\ Len(result[1]) = 2
    /\ opened_at[Frame(1)] = <<1, 3>>
    /\ result[1][1].title # result[1][2].title

\* C6: a trimmed non-empty line opens a new block if and only if it starts
\* with "1." .. "5." and contains a colon.  A line that does not open a block
\* saves nothing, leaves the title of the current idea alone and, when the
\* current idea has a description and the line bears no label and no dash,
\* is appended to that description like any other line.
C6_OpensBlockIff ==
    [][\A c \in Calls :
          (RunsIteration(c) /\ Line(c) # <<>>) =>
              LET l == Line(c)
                  cur == current_idea[Frame(c)]
                  opened == current_at'[Frame(c)] = i[c]
              IN  /\ opened <=> IsOpenerLine(l)
                  /\ IsOpenerLine(l) =>
                        /\ current_idea'[Frame(c)] # None
                        /\ current_idea'[Frame(c)][1].description = <<>>
                        /\ current_idea'[Frame(c)][1].highlights = <<>>
                        /\ current_idea'[Frame(c)][1].duration = <<>>
                  /\ ~IsOpenerLine(l) =>
                        /\ ideas'[Frame(c)] = ideas[Frame(c)]
                        /\ (cur = None) <=> (current_idea'[Frame(c)] = None)
                        /\ cur # None => current_idea'[Frame(c)][1].title = cur[1].title
                        /\ (/\ cur # None
                            /\ cur[1].description # <<>>
                            /\ l[1] \in {"1", "2", "3", "4", "5", "6", "7", "8", "9"})
                           => current_idea'[Frame(c)][1].description
                                  = cur[1].description \o <<" ">> \o l
      ]_vars

\* "1. Go" and "6. X: y" were taken as continuation lines of the open block
C6_Witness ==
    /\ Finished(1)
    /\ Len(result[1]) = 1
    /\ result[1][1].description \in { <<"d", " ", "1", ".", " ", "G", "o">>, <<"d", " ", "6", ".", " ", "X", ":", " ", "y">> }

\* C7 as stated: the title of a newly opened block is the trimmed text after
\* the first colon of the line, or the entire line when no text follows the
\* colon.
C7_TitleOrWholeLine ==
    [][\A c \in Calls :
          (RunsIteration(c) /\ IsOpenerLine(Line(c))) =>
              current_idea'[Frame(c)][1].title =
                  IF AfterFirstColon(Line(c)) # <<>>
                  THEN AfterFirstColon(Line(c)) ELSE Line(c)
      ]_vars

\* C7 amended: the title of a newly opened block is the trimmed text after
\* the first colon of the line, later colons included; when no text follows
\* the colon the title is the empty string.
C7_TitleAfterFirstColon ==
    [][\A c \in Calls :
          (RunsIteration(c) /\ IsOpenerLine(Line(c))) =>
              /\ current_idea'[Frame(c)] # None
              /\ current_idea'[Frame(c)][1].title = AfterFirstColon(Line(c))
      ]_vars

C7_Witness ==
    /\ pc[1] = "loop"
    /\ i[1] = 2
    /\ current_idea[Frame(1)] # None
    /\ current_idea[Frame(1)][1].title = <<"U", ":", "v">>

\* C8: on the eight-line example the result is exactly the two records of
\* the specification.
ExampleText == <<"1", ".", " ", "C", "o", "a", "s", "t", "a", "l", " ", "R", "o", "a", "d", " ", "T", "r", "i", "p", ":", " ", "S", "c", "e", "n", "i", "c", " ", "d", "r", "i", "v", "e", "s", "\n", "D", "e", "s", "c", "r", "i", "p", "t", "i", "o", "n", ":", " ", "D", "r", "i", "v", "e", " ", "a", "l", "o", "n", "g", " ", "t", "h", "e", " ", "c", "o", "a", "s", "t", " ", "v", "i", "s", "i", "t", "i", "n", "g", " ", "s", "m", "a", "l", "l", " ", "t", "o", "w", "n", "s", ".", "\n", "H", "i", "g", "h", "l", "i", "g", "h", "t", ":", " ", "L", "i", "g", "h", "t", "h", "o", "u", "s", "e", " ", "a", "t", " ", "s", "u", "n", "s", "e", "t", "\n", "-", " ", "L", "o", "c", "a", "l", " ", "s", "e", "a", "f", "o", "o", "d", " ", "t", "a", "s", "t", "i", "n", "g", "\n", "D", "u", "r", "a", "t", "i", "o", "n", ":", " ", "5", " ", "d", "a", "y", "s", "\n", "2", ".", " ", "M", "o", "u", "n", "t", "a", "i", "n", " ", "R", "e", "t", "r", "e", "a", "t", ":", " ", "P", "e", "a", "c", "e", "f", "u", "l", " ", "c", "a", "b", "i", "n", "s", "\n", "D", "e", "s", "c", "r", "i", "p", "t", "i", "o", "n", ":", " ", "S", "t", "a", "y", " ", "i", "n", " ", "a", " ", "s", "e", "c", "l", "u", "d", "e", "d", " ", "c", "a", "b", "i", "n", ".", "\n", "D", "u", "r", "a", "t", "i", "o", "n", ":", " ", "3", " ", "d", "a", "y", "s">>

ExampleRecords ==
    << [title |-> <<"S", "c", "e", "n", "i", "c", " ", "d", "r", "i", "v", "e", "s">>,
        description |-> <<"D", "r", "i", "v", "e", " ", "a", "l", "o", "n", "g", " ", "t", "h", "e", " ", "c", "o", "a", "s", "t", " ", "v", "i", "s", "i", "t", "i", "n", "g", " ", "s", "m", "a", "l", "l", " ", "t", "o", "w", "n", "s", ".">>,
        highlights |-> << <<"L", "i", "g", "h", "t", "h", "o", "u", "s", "e", " ", "a", "t", " ", "s", "u", "n", "s", "e", "t">>, <<"L", "o", "c", "a", "l", " ", "s", "e", "a", "f", "o", "o", "d", " ", "t", "a", "s", "t", "i", "n", "g">> >>,
        duration |-> <<"5", " ", "d", "a", "y", "s">>],
       [title |-> <<"P", "e", "a", "c", "e", "f", "u", "l", " ", "c", "a", "b", "i", "n", "s">>,
        description |-> <<"S", "t", "a", "y", " ", "i", "n", " ", "a", " ", "s", "e", "c", "l", "u", "d", "e", "d", " ", "c", "a", "b", "i", "n", ".">>,
        highlights |-> <<>>,
        duration |-> <<"3", " ", "d", "a", "y", "s">>] >>

C8_Example ==
    \A c \in Calls :
        (Finished(c) /\ response[c] = ExampleText) => result[c] = ExampleRecords

C8_Witness == Finished(1) /\ response[1] = ExampleText /\ Len(result[1]) = 2

\* C9: calls on identical input return equal values, whether they run one
\* after the other or at the same time: nothing a call leaves behind changes
\* what a later call returns.
C9_Deterministic ==
    \A j, k \in 1..Len(returned) :
        returned[j].response = returned[k].response
            => returned[j].result = returned[k].result

\* The same caller has parsed the same structured text twice
C9_Witness ==
    \E j, k \in 1..Len(returned) :
        /\ j < k
        /\ returned[j].caller = returned[k].caller
        /\ returned[j].response = returned[k].response
        /\ returned[j].result = returned[k].result
        /\ returned[j].result[1].title = <<"T">>

\* C10: when the steps of two calls interleave, a step of one call changes
\* neither the ideas list nor the current idea of the other, and each call
\* returns what parse_ideas_response returns on its input when run alone.
C10_Isolated ==
    [][\A c \in Calls :
          /\ (pc'[c] = pc[c] /\ i'[c] = i[c] /\ ncalls'[c] = ncalls[c]) =>
                /\ ideas'[c] = ideas[c]
                /\ current_idea'[c] = current_idea[c]
          /\ pc'[c] = "done" => result'[c] = ParseIdeas(response'[c])
      ]_vars

\* A call returned its parsed ideas while the other caller's call, on another
\* text, was in progress, and that one has returned its own since
C10_Witness ==
    \E j, k \in 1..Len(returned) :
        /\ j < k
        /\ returned[j].caller # returned[k].caller
        /\ returned[j].inflight # {}
        /\ returned[j].response # returned[k].response
        /\ returned[j].result[1].title = <<"T">>
        /\ returned[k].result[1].title = <<"U", ":", "v">>
        /\ Len(returned) = 2

(***************************************************************************)
(* Properties of the external-system callers and of the booking storage.   *)
(***************************************************************************)

\* The invocation has returned
CallerDone == ext.pc = "done"

\* The request was made and did not end in a response with a 2xx status
NotAnswered2xx ==
    \/ ext.resp.kind = "exception"
    \/ ext.resp.kind = "response" /\ ext.resp.status \notin 200..299

\* The request was made and did not end in a response with status 200
NotAnswered200 ==
    \/ ext.resp.kind = "exception"
    \/ ext.resp.kind = "response" /\ ext.resp.status # 200

\* The failure value of each caller
IsFailureValueOf(fn, ret) ==
    CASE fn = "call_availability_system" ->
            /\ ret[1] = "dict"
            /\ DOMAIN ret[2] = {"error", "available"}
            /\ ret[2].available = FALSE
      [] fn = "call_booking_system" ->
            /\ ret[1] = "dict"
            /\ DOMAIN ret[2] = {"error"}
      [] fn = "check_loyalty_status" ->
            /\ ret[1] = "dict"
            /\ DOMAIN ret[2] = {}
      [] fn = "add_loyalty_points" -> ret = <<"bool", FALSE>>

\* C11 as stated: on a non-2xx response or a transport failure every caller
\* returns a record with an error field and available=false or status=false;
\* a 2xx response is returned as the success.
C11_UniformErrorRecord ==
    CallerDone =>
        /\ ext.ret[1] # "raised"
        /\ NotAnswered2xx =>
              /\ ext.ret[1] = "dict"
              /\ "error" \in DOMAIN ext.ret[2]
              /\ \/ "available" \in DOMAIN ext.ret[2] /\ ext.ret[2].available = FALSE
                 \/ "status" \in DOMAIN ext.ret[2] /\ ext.ret[2].status = FALSE
        /\ (/\ ext.resp.kind = "response"
            /\ ext.resp.status \in 200..299
            /\ ext.resp.body # NotJson
            /\ ext.fn # "add_loyalty_points")
           => ext.ret = <<"dict", ext.resp.body[2]>>

\* C11 amended: no caller raises; on a transport failure or a response whose
\* status is not 200, call_availability_system returns a record of an error
\* and available=false, call_booking_system a record of an error only,
\* check_loyalty_status the empty record and add_loyalty_points False; a
\* response is the success only when its status is 200.
C11_FailureValuePerCaller ==
    CallerDone =>
        /\ ext.ret[1] \in {"dict", "bool"}
        /\ NotAnswered200 => IsFailureValueOf(ext.fn, ext.ret)
        /\ (ext.resp.kind = "response" /\ ext.resp.status = 200) =>
              IF ext.fn = "add_loyalty_points" THEN ext.ret = <<"bool", TRUE>>
              ELSE IF ext.resp.body = NotJson THEN IsFailureValueOf(ext.fn, ext.ret)
              ELSE ext.ret = <<"dict", ext.resp.body[2]>>

\* call_booking_system got a 201 and returned its error record
C11_Witness ==
    /\ CallerDone
    /\ ext.fn = "call_booking_system"
    /\ ext.resp.kind = "response"
    /\ ext.resp.status = 201
    /\ ext.resp.body # NotJson
    /\ DOMAIN ext.ret[2] = {"error"}

\* C12: get_booking_data(id) returns the data of the last save of id when
\* that save succeeded, whatever was saved under other ids since; it returns
\* the empty record for an id never saved and on a storage error.
C12_RoundTrip ==
    s3_last.op = "get" =>
        /\ s3_last.ret[1] = "dict"
        /\ (s3_last.outcome = "answered" /\ saved[s3_last.id].state = "ok")
              => s3_last.ret = saved[s3_last.id].data
        /\ saved[s3_last.id].state = "never" => s3_last.ret = <<"dict", EmptyDict>>
        /\ s3_last.outcome # "answered" => s3_last.ret = <<"dict", EmptyDict>>

\* b1 was saved, other data was saved under b2, and b1 is read back
C12_Witness ==
    /\ s3_last.op = "get"
    /\ s3_last.id = "b1"
    /\ s3_last.outcome = "answered"
    /\ saved["b1"].state = "ok"
    /\ saved["b2"].state = "ok"
    /\ saved["b1"].data # saved["b2"].data
    /\ "passenger_names" \in DOMAIN s3_last.ret[2]
    /\ s3_last.ret = saved["b1"].data

\* C13: an invocation of a caller, made directly or through one
\* check_*_availability or process_*_booking call, issues at most one HTTP
\* request; it has issued exactly one when it returns after a response or a
\* transport failure.
C13_OneRequest ==
    /\ ext.sent <= 1
    /\ ext.pc \in {"awaiting", "responded"} => ext.sent = 1
    /\ (CallerDone /\ ext.resp.kind # "none") => ext.sent = 1
    /\ (CallerDone /\ ext.resp.kind = "none") => ext.sent = 0

\* process_flight_booking returned the error of a 500 after one request
C13_Witness ==
    /\ CallerDone
    /\ ext.via = "process_flight_booking"
    /\ ext.resp.kind = "response"
    /\ ext.resp.status = 500
    /\ ext.sent = 1
    /\ "error" \in DOMAIN ext.ret[2]

(***************************************************************************)
(* Properties of the lines inside a block of parse_ideas_response.         *)
(***************************************************************************)

\* The trimmed lines of the text ls was split into
Trimmed(ls) == [k \in 1..Len(ls) |-> Strip(ls[k])]

\* The trimmed lines call c iterates over
TrimmedLinesOf(c) == Trimmed(lines[c])

\* l starts with a label, in small or capital letters
StartsWithLabel(l, small, capital) ==
    /\ Len(l) >= Len(small)
    /\ \A k \in 1..Len(small) : l[k] \in {small[k], capital[k]}

IsDescriptionLine(l) == StartsWithLabel(l, <<"d", "e", "s", "c", "r", "i", "p", "t", "i", "o", "n", ":">>, <<"D", "E", "S", "C", "R", "I", "P", "T", "I", "O", "N", ":">>)

IsHighlightLine(l) == StartsWithLabel(l, <<"h", "i", "g", "h", "l", "i", "g", "h", "t">>, <<"H", "I", "G", "H", "L", "I", "G", "H", "T">>)

IsDurationLine(l) == StartsWithLabel(l, <<"d", "u", "r", "a", "t", "i", "o", "n", ":">>, <<"D", "U", "R", "A", "T", "I", "O", "N", ":">>)

IsDashLine(l) == Len(l) >= 1 /\ l[1] = "-"

\* A non-empty line that opens no block, bears no label and no dash
IsPlainLine(l) ==
    /\ l # <<>>
    /\ ~IsOpenerLine(l)
    /\ ~IsDescriptionLine(l)
    /\ ~IsHighlightLine(l)
    /\ ~IsDurationLine(l)
    /\ ~IsDashLine(l)

\* The last line of the block opened by line a of ls
BlockEnd(ls, a) ==
    LET later == {j \in (a + 1)..Len(ls) : IsOpenerLine(ls[j])}
    IN  IF later = {} THEN Len(ls) ELSE MinOf(later) - 1

\* acc extended by the plain lines k..e of ls, each after one space
RECURSIVE Continued(_, _, _, _)
Continued(acc, ls, k, e) ==
    IF k > e THEN acc
    ELSE Continued(IF acc # <<>> /\ IsPlainLine(ls[k]) THEN acc \o <<" ">> \o ls[k] ELSE acc,
                   ls, k + 1, e)

\* The description of the block a..e: its last description: line and the
\* plain lines after it
DescriptionOfBlock(ls, a, e) ==
    LET ds == {j \in (a + 1)..e : IsDescriptionLine(ls[j])}
    IN  IF ds = {} THEN <<>>
        ELSE Continued(AfterFirstColon(ls[MaxOf(ds)]), ls, MaxOf(ds) + 1, e)

\* Call c returned the ideas it parsed
ReturnedIdeas(c) == Finished(c) /\ ~caught[c] /\ opened_at[Frame(c)] # <<>>

\* The text after the first colon of l, as it stands
RawAfterFirstColon(l) ==
    LET k == MinOf({j \in 1..Len(l) : l[j] = ":"})
    IN  SubSeq(l, k + 1, Len(l))

\* The items of the highlight lines and dash lines k..e of ls, in order; the
\* text after the colon of a highlight line is trimmed or taken as it stands
RECURSIVE HighlightsOfLines(_, _, _, _)
HighlightsOfLines(ls, k, e, trimmed) ==
    IF k > e THEN <<>>
    ELSE (IF IsHighlightLine(ls[k])
          THEN <<IF \E j \in 1..Len(ls[k]) : ls[k][j] = ":"
                 THEN IF trimmed THEN AfterFirstColon(ls[k])
                                 ELSE RawAfterFirstColon(ls[k])
                 ELSE ls[k]>>
          ELSE IF IsDashLine(ls[k]) THEN <<Strip(Tail(ls[k]))>>
          ELSE <<>>)
         \o HighlightsOfLines(ls, k + 1, e, trimmed)

\* Each record call c returned has the highlights of its block
HighlightsOfBlocks(c, trimmed) ==
    ReturnedIdeas(c) =>
        \A k \in 1..Len(result[c]) :
            result[c][k].highlights =
                HighlightsOfLines(TrimmedLinesOf(c), opened_at[Frame(c)][k] + 1,
                                  BlockEnd(TrimmedLinesOf(c), opened_at[Frame(c)][k]),
                                  trimmed)

\* Each record of res has the description of its block, the blocks of the
\* lines ls being opened at the lines at
DescriptionsOfBlocks(res, ls, at) ==
    \A k \in 1..Len(res) :
        res[k].description = DescriptionOfBlock(ls, at[k], BlockEnd(ls, at[k]))

\* C14: inside a block a line starting with "description:" (any letter case)
\* sets the description to the trimmed text after its first colon and
\* changes nothing else, whatever the description was; the description of a
\* returned record is that of the last description: line of its block
\* followed by the continuation lines after it.
C14_DescriptionOverwrites ==
    [][\A c \in Calls :
          /\ (/\ RunsIteration(c)
              /\ current_idea[Frame(c)] # None
              /\ IsDescriptionLine(Line(c)))
             => /\ current_idea'[Frame(c)] =
                       <<[current_idea[Frame(c)][1] EXCEPT
                            !.description = AfterFirstColon(Line(c))]>>
                /\ ideas'[Frame(c)] = ideas[Frame(c)]
          /\ (pc[c] = "return" /\ pc'[c] = "done" /\ ideas[Frame(c)] # <<>>)
             => DescriptionsOfBlocks(result'[c], Trimmed(lines[c]), opened_at[Frame(c)])
      ]_vars

\* "Description: d", "note", "6. X: y" were replaced by "description:e"
C14_Witness ==
    /\ Finished(1)
    /\ Len(lines[1]) = 6
    /\ Len(result[1]) = 1
    /\ result[1][1].description = <<"e", " ", "m", "o", "r", "e">>

\* C15: inside a block a line starting with "-" appends one item, the line
\* without its dash, trimmed, to the highlights, and leaves the description
\* and the duration as they were, empty or not.
C15_DashIsHighlight ==
    [][\A c \in Calls :
          (/\ RunsIteration(c)
           /\ current_idea[Frame(c)] # None
           /\ IsDashLine(Line(c)))
          => /\ current_idea'[Frame(c)] =
                    <<[current_idea[Frame(c)][1] EXCEPT
                         !.highlights = Append(@, Strip(Tail(Line(c))))]>>
             /\ ideas'[Frame(c)] = ideas[Frame(c)]
      ]_vars

\* A dash line after a description became a highlight
C15_Witness ==
    /\ pc[1] = "loop"
    /\ i[1] = 4
    /\ IsDashLine(Strip(lines[1][3]))
    /\ current_idea[Frame(1)] # None
    /\ current_idea[Frame(1)][1].description = <<"d">>
    /\ current_idea[Frame(1)][1].highlights = <<<<"b">>>>

\* C16: inside a block whose description is empty, a line that opens no
\* block, starts with none of the labels and with no dash changes nothing.
C16_PlainLineDropped ==
    [][\A c \in Calls :
          (/\ RunsIteration(c)
           /\ current_idea[Frame(c)] # None
           /\ current_idea[Frame(c)][1].description = <<>>
           /\ IsPlainLine(Line(c)))
          => /\ current_idea'[Frame(c)] = current_idea[Frame(c)]
             /\ ideas'[Frame(c)] = ideas[Frame(c)]
             /\ result' = result
      ]_vars

\* "note" right after the opening line was dropped
C16_Witness ==
    /\ pc[1] = "loop"
    /\ i[1] = 3
    /\ IsOpenerLine(Strip(lines[1][1]))
    /\ Strip(lines[1][2]) = <<"n", "o", "t", "e">>
    /\ current_idea[Frame(1)] = <<[title |-> <<"T">>, description |-> <<>>,
                                   highlights |-> <<>>, duration |-> <<>>]>>

\* C17: inside a block whose description is not empty, a line that opens no
\* block, starts with none of the labels and with no dash is appended to the
\* description after one space; highlights, duration and title stay.
C17_PlainLineContinues ==
    [][\A c \in Calls :
          (/\ RunsIteration(c)
           /\ current_idea[Frame(c)] # None
           /\ current_idea[Frame(c)][1].description # <<>>
           /\ IsPlainLine(Line(c)))
          => /\ current_idea'[Frame(c)] =
                    <<[current_idea[Frame(c)][1] EXCEPT
                         !.description = @ \o <<" ">> \o Line(c)]>>
             /\ ideas'[Frame(c)] = ideas[Frame(c)]
      ]_vars

\* Two continuation lines were appended in their order
C17_Witness ==
    /\ pc[1] = "loop"
    /\ current_idea[Frame(1)] # None
    /\ current_idea[Frame(1)][1].description = <<"d", " ", "n", "o", "t", "e", " ", "6", ".", " ", "X", ":", " ", "y">>

\* C18 as stated: the highlights of a returned record are the items of the
\* highlight lines (the text after the first colon as it stands, or the
\* whole line without a colon) and of the dash lines of its block, one per
\* line, in line order.
C18_HighlightsUntrimmed == \A c \in Calls : HighlightsOfBlocks(c, FALSE)

\* C18: the highlights of a returned record are the items of the highlight
\* lines (the trimmed text after the first colon, or the whole line without
\* a colon) and of the dash lines of its block, one per line, in line order.
C18_HighlightsOfBlock == \A c \in Calls : HighlightsOfBlocks(c, TRUE)

C18_Witness ==
    /\ Finished(1)
    /\ Len(result[1]) = 2
    /\ result[1][1].highlights = << <<"b">>, <<"h">>, <<"h", "i", "g", "h", "l", "i", "g", "h", "t", "s">> >>
    /\ result[1][2].highlights = << <<"c">> >>

\* C19: a newly opened block starts with empty description, highlights and
\* duration; a line changes at most the current idea: the records already in
\* ideas stay as they are, a record enters ideas only as the current idea of
\* the moment the next block opens or the input ends, and before the first
\* opening line nothing changes.
C19_LinesStayInTheirBlock ==
    [][\A c \in Calls :
          /\ RunsIteration(c) =>
                LET l == Line(c)
                    cur == current_idea[Frame(c)]
                    before == ideas[Frame(c)]
                    after == ideas'[Frame(c)]
                IN  /\ IsOpenerLine(l) =>
                          /\ current_idea'[Frame(c)] # None
                          /\ current_idea'[Frame(c)][1].description = <<>>
                          /\ current_idea'[Frame(c)][1].highlights = <<>>
                          /\ current_idea'[Frame(c)][1].duration = <<>>
                    /\ Len(after) >= Len(before)
                    /\ SubSeq(after, 1, Len(before)) = before
                    /\ after # before =>
                          /\ IsOpenerLine(l)
                          /\ cur # None
                          /\ after = Append(before, cur[1])
                    /\ (cur = None /\ ~IsOpenerLine(l)) =>
                          /\ current_idea'[Frame(c)] = None
                          /\ after = before
          /\ (pc[c] = "loop" /\ pc'[c] = "return") =>
                \/ ideas'[Frame(c)] = ideas[Frame(c)]
                \/ /\ current_idea[Frame(c)] # None
                   /\ ideas'[Frame(c)] = Append(ideas[Frame(c)], current_idea[Frame(c)][1])
          /\ (pc[c] = "return" /\ pc'[c] = "done" /\ ideas[Frame(c)] # <<>>) =>
                result'[c] = ideas[Frame(c)]
      ]_vars

\* The lines of the dropped block "2.B:" reached neither the record before
\* it nor the record after it
C19_Witness ==
    /\ Finished(1)
    /\ Len(lines[1]) = 13
    /\ Len(result[1]) = 2
    /\ result[1][1].description = <<"d", " ", "n", "o", "t", "e">>
    /\ result[1][1].duration = <<"3">>
    /\ result[1][2].description = <<>>
    /\ result[1][2].duration = <<>>

\* The opening lines of call c whose title is not empty
TitledOpeners(c) ==
    {k \in 1..Len(lines[c]) :
        /\ IsOpenerLine(TrimmedLinesOf(c)[k])
        /\ AfterFirstColon(TrimmedLinesOf(c)[k]) # <<>>}

\* C20: the value returned has one record for each opening line with a
\* non-empty title when there is such a line, and is the single fallback
\* record otherwise.
C20_OneRecordPerBlock ==
    \A c \in Calls :
        (Finished(c) /\ ~caught[c]) =>
            IF TitledOpeners(c) # {}
            THEN Len(result[c]) = Cardinality(TitledOpeners(c))
            ELSE result[c] = <<TheFallback(response[c])>>

\* Three opening lines, one of them without a title: two records
C20_Witness ==
    /\ Finished(1)
    /\ Cardinality(TitledOpeners(1)) = 2
    /\ Cardinality({k \in 1..Len(lines[1]) : IsOpenerLine(TrimmedLinesOf(1)[k])}) = 3
    /\ Len(result[1]) = 2

(***************************************************************************)
(* Properties of the booking handler.                                      *)
(***************************************************************************)

\* value is a gateway envelope
IsEnvelope(value) ==
    value[1] = "dict" /\ DOMAIN value[2] = {"statusCode", "headers", "body"}

\* value is an envelope of the status whose body has an error member
IsErrorEnvelope(value, status) ==
    /\ IsEnvelope(value)
    /\ value[2].statusCode = <<"int", status>>
    /\ "error" \in DOMAIN value[2].body[2][2]

\* The request of the invocation b lacks type, details or user_info, or
\* names a type that is none of flight, hotel, activity, package
BadRequest(b) ==
    /\ b.via # "malformed"
    /\ \/ b.type = <<>>
       \/ ~Truthy(b.details)
       \/ ~Truthy(b.user_info)
       \/ Lower(b.type) \notin {<<"f", "l", "i", "g", "h", "t">>, <<"h", "o", "t", "e", "l">>, <<"a", "c", "t", "i", "v", "i", "t", "y">>, <<"p", "a", "c", "k", "a", "g", "e">>}

\* The invocation b got a booking result that carries an error
FailedBooking(b) == ~BadRequest(b) /\ b.via # "malformed" /\ "error" \in DOMAIN b.result[2]

\* C21: a booking request that lacks type, details or user_info, names an
\* unsupported type, or gets a booking result with an error, is answered
\* with an error response; the invocation calls neither save_booking_data
\* nor add_loyalty_points and the storage stays as it was.
C21_FailureLeavesNoTrace ==
    [][/\ (bk'.pc = "done" /\ bk.pc # "done" /\ (BadRequest(bk') \/ FailedBooking(bk')))
          => /\ IsErrorEnvelope(bk'.ret, 400)
             /\ bk'.saves = <<>>
             /\ bk'.points = <<>>
       /\ (bucket' # bucket \/ saved' # saved \/ s3_last' # s3_last)
          => /\ ~BadRequest(bk)
             /\ "error" \notin DOMAIN bk.result[2]
             /\ bk.pc = "store"
      ]_vars

\* The booking system turned the hotel down: a 400 and nothing stored
C21_Witness ==
    /\ bk.pc = "done"
    /\ bk.url
    /\ TypeOf(bk.type) = "hotel"
    /\ FailedBooking(bk)
    /\ Len(bk.results) = 1
    /\ IsErrorEnvelope(bk.ret, 400)
    /\ bucket = [k \in ObjectKeys |-> NoObject]

\* A returned value that confirms a booking: the 200 envelope or the bare
\* record with a booking_id
IsConfirmation(value) ==
    \/ IsEnvelope(value) /\ value[2].statusCode = <<"int", 200>>
    \/ ~IsEnvelope(value) /\ value[1] = "dict" /\ "booking_id" \in DOMAIN value[2]

\* C22: whenever the handler returns a confirmation with a booking_id, the
\* save of the record of that booking_id succeeded and
\* get_booking_data(booking_id) returns that record.
C22_ConfirmedIsStored ==
    (bk.pc = "done" /\ IsConfirmation(bk.ret)) =>
        /\ bk.saves = <<"stored">>
        /\ "booking_id" \in DOMAIN GetBookingDataReturn(bucket, bk.id, "answered")[2]
        /\ GetBookingDataReturn(bucket, bk.id, "answered")[2].booking_id = <<"str", bk.id>>

\* C24: when process_package_booking returns an error, the external booking
\* system has accepted none of the components of the package.
C24_PackageAllOrNothing ==
    (/\ bk.pc \in {"done", "store", "loyalty"}
     /\ Lower(bk.type) = <<"p", "a", "c", "k", "a", "g", "e">>
     /\ ~BadRequest(bk)
     /\ bk.via # "malformed"
     /\ "error" \in DOMAIN bk.result[2])
    => bk.accepted = {}

(***************************************************************************)
(* Properties of the availability handler.                                 *)
(***************************************************************************)

\* The handler answered a package request with available = true
PackageReportedAvailable ==
    /\ av.pc = "done"
    /\ av.type[1] = "text"
    /\ Lower(av.type[2]) = <<"p", "a", "c", "k", "a", "g", "e">>
    /\ "available" \in DOMAIN av.result[2]
    /\ av.result[2].available = <<"bool", TRUE>>

\* C23: check_package_availability reports available = true only when the
\* flight and the hotel it checked are both available and every requested
\* activity is available; an unavailable or failed flight or hotel makes the
\* package unavailable, with or without activities.
C23_PackageNeedsEveryComponent ==
    PackageReportedAvailable =>
        \A k \in 1..Len(av.results) :
            av.checks[k].kind # "none" =>
                /\ "available" \in DOMAIN av.results[k][2]
                /\ av.results[k][2].available = <<"bool", TRUE>>

(***************************************************************************)
(* Properties of the bookings-QA handler.                                  *)
(***************************************************************************)

\* The record a handler returned, taken out of its envelope
BodyOf(value) == IF IsEnvelope(value) THEN Loads(value[2].body[2]) ELSE value

\* The bookings-QA handler finished a request that has a query and a
\* user_id or a booking_id
QaAnswered ==
    /\ qa.pc = "done"
    /\ qa.via # "malformed"
    /\ qa.query # <<"str", "">>
    /\ qa.user_id # "" \/ qa.booking_id # ""

\* The stored record under key belongs to user_id
StoredFor(key, user_id) ==
    /\ bucket[key] # NoObject
    /\ "user_info" \in DOMAIN Loads(bucket[key])[2]
    /\ Loads(bucket[key])[2].user_info[1] = "dict"
    /\ "id" \in DOMAIN Loads(bucket[key])[2].user_info[2]
    /\ Loads(bucket[key])[2].user_info[2].id = <<"str", user_id>>

\* The storage holds nothing for the request: no record of the booking_id,
\* or, without a booking_id, no record of the user_id
NothingStoredForRequest ==
    IF qa.booking_id # "" THEN bucket[ObjectKey(qa.booking_id)] = NoObject
    ELSE \A key \in ObjectKeys : ~StoredFor(key, qa.user_id)

\* The 404 response 'No booking data found'
IsNoBookingDataFound(value) ==
    /\ IsErrorEnvelope(value, 404)
    /\ BodyOf(value)[2].error = <<"str", <<"No booking data found", 0>>>>

\* The response of the except clause, in the shape of the invocation
IsQaInternalError(value) ==
    /\ "error" \in DOMAIN BodyOf(value)[2]
    /\ BodyOf(value)[2].error = <<"str", <<"Internal server error", 0>>>>
    /\ IsEnvelope(value) => value[2].statusCode = <<"int", 500>>

\* The model is invoked only after a booking was found, and on success
\* booking_count is the number of the bookings found
InvokedWithBookings ==
    /\ qa.invoked > 0 => qa.booking_data # <<>>
    /\ (QaAnswered /\ "booking_count" \in DOMAIN BodyOf(qa.ret)[2])
       => /\ qa.invoked = 1
          /\ BodyOf(qa.ret)[2].booking_count = <<"int", Len(qa.booking_data)>>

\* C26 as stated: the model is invoked only after a booking was found; when
\* the booking_id has no stored record, or no stored booking has
\* user_info.id equal to the user_id, the handler returns the 404 response
\* 'No booking data found' without invoking the model; on success
\* booking_count is the number of bookings found.
C26_NotFoundIs404 ==
    /\ InvokedWithBookings
    /\ (QaAnswered /\ NothingStoredForRequest)
       => /\ IsNoBookingDataFound(qa.ret)
          /\ qa.invoked = 0

\* C26, amended: the model is invoked only after a booking was found; when
\* the booking_id has no stored record the handler returns the 404 response
\* 'No booking data found'; when only a user_id is given and no stored
\* booking has user_info.id equal to it, the handler returns that 404
\* response or, when reading the storage raised, the internal-error
\* response; in both cases the model is not invoked; on success
\* booking_count is the number of bookings found.
C26_NotFoundNeverInvokes ==
    /\ InvokedWithBookings
    /\ (QaAnswered /\ NothingStoredForRequest)
       => /\ \/ IsNoBookingDataFound(qa.ret)
             \/ qa.booking_id = "" /\ IsQaInternalError(qa.ret)
          /\ qa.invoked = 0

\* The storage holds a booking of u1 only and u2 asks for their bookings:
\* the 404 response and no invocation of the model
C26_Witness ==
    /\ QaAnswered
    /\ qa.booking_id = ""
    /\ qa.user_id = "u2"
    /\ StoredFor(ObjectKey("b1"), "u1")
    /\ NothingStoredForRequest
    /\ qa.keys = <<>>
    /\ IsNoBookingDataFound(qa.ret)
    /\ qa.invoked = 0

\* C27: when the request gives a user_id, every booking placed in the
\* context of the model has user_info.id equal to that user_id, also when a
\* booking_id is given with the user_id.
C27_OnlyOwnBookings ==
    (qa.user_id # "" /\ qa.invoked > 0) =>
        \A k \in 1..Len(qa.booking_data) :
            /\ "user_info" \in DOMAIN qa.booking_data[k][2]
            /\ qa.booking_data[k][2].user_info[1] = "dict"
            /\ "id" \in DOMAIN qa.booking_data[k][2].user_info[2]
            /\ qa.booking_data[k][2].user_info[2].id = <<"str", qa.user_id>>

\* The values printed after the label in the lines of a booking
Reported(booking_lines, label) ==
    {booking_lines[k][2] : k \in {j \in 1..Len(booking_lines) : booking_lines[j][1] = label}}

\* The booking is of the type and was confirmed by the simulation, which
\* gives a confirmation_code
SimulatedOfType(booking, booking_type) ==
    /\ Lower(booking[2].booking_type[2]) = booking_type
    /\ "confirmation_code" \in DOMAIN booking[2].confirmation[2]

\* C29: for a stored simulated flight booking with n passengers
\* format_booking_context reports the passenger count n, and for a stored
\* hotel or activity booking the number of guests or participants given at
\* booking time.
C29_CountsReadBack ==
    \A k \in 1..Len(qa.context) :
        /\ SimulatedOfType(qa.booking_data[k], <<"f", "l", "i", "g", "h", "t">>)
           => Reported(qa.context[k], "Passengers")
                = {<<"int", Len(qa.booking_data[k][2].details[2].passengers[2])>>}
        /\ SimulatedOfType(qa.booking_data[k], <<"h", "o", "t", "e", "l">>)
           => Reported(qa.context[k], "Guests")
                = {<<"int", Len(qa.booking_data[k][2].details[2].guests[2])>>}
        /\ SimulatedOfType(qa.booking_data[k], <<"a", "c", "t", "i", "v", "i", "t", "y">>)
           => Reported(qa.context[k], "Participants")
                = {<<"int", Len(qa.booking_data[k][2].details[2].participants[2])>>}

(***************************************************************************)
(* Properties of the chat handler.                                         *)
(***************************************************************************)

\* The chat handler returned a response that is no error
ChatAnswered ==
    /\ chat.pc = "done"
    /\ IsEnvelope(chat.ret)
    /\ "error" \notin DOMAIN BodyOf(chat.ret)[2]

\* C28: every chat response that is no error carries a non-empty
\* session_id: the one of the request when it gave one, else an id generated
\* for this request and given to no request before; the guardrails agent,
\* when it is called, gets that id, and the context returned has it.
C28_SessionContinuity ==
    [][/\ (chat.pc = "parse" /\ chat'.pc = "route" /\ chat.request_session_id = "")
          => /\ chat'.session_id \in GeneratedSessionIds
             /\ chat'.session_id \notin chat.issued
       /\ (chat'.pc = "done" /\ chat.pc # "done" /\ "error" \notin DOMAIN BodyOf(chat'.ret)[2])
          => LET body == BodyOf(chat'.ret)[2]
             IN  /\ "session_id" \in DOMAIN body
                 /\ body.session_id # <<"str", "">>
                 /\ IF chat'.request_session_id # ""
                    THEN body.session_id = <<"str", chat'.request_session_id>>
                    ELSE \E g \in GeneratedSessionIds :
                            /\ body.session_id = <<"str", g>>
                            /\ g \in chat'.issued
                 /\ \A k \in 1..Len(chat'.agent_sessions) :
                        <<"str", chat'.agent_sessions[k]>> = body.session_id
                 /\ chat'.guardrails => Len(chat'.agent_sessions) = 1
                 /\ "context" \in DOMAIN body => body.context[2].session_id = body.session_id
                 /\ "flagged" \notin DOMAIN body => "context" \in DOMAIN body
      ]_vars

\* A second request without a session id got the second generated id, which
\* went to the guardrails agent and into the context
C28_Witness ==
    /\ ChatAnswered
    /\ chat.request_session_id = ""
    /\ chat.issued = {"g1", "g2"}
    /\ chat.agent_sessions = <<chat.session_id>>
    /\ "context" \in DOMAIN BodyOf(chat.ret)[2]
    /\ BodyOf(chat.ret)[2].context[2].session_id = <<"str", chat.session_id>>

(***************************************************************************)
(* Properties of the handlers taken together.                              *)
(***************************************************************************)

\* The invocation h returned a value of the shape of its invocation: the
\* gateway envelope exactly when the event carries a body
ShapeFollowsInvocation(h) ==
    h.pc = "done" => (IsEnvelope(h.ret) <=> h.via \in {"gateway", "malformed"})

\* C25: in the availability, booking, bookings-QA and ideation handlers the
\* value returned is the gateway envelope if and only if the event carries
\* a body, on every path: success, validation error and internal error.
C25_ShapeFollowsInvocation ==
    /\ ShapeFollowsInvocation(av)
    /\ ShapeFollowsInvocation(bk)
    /\ ShapeFollowsInvocation(qa)
    /\ ShapeFollowsInvocation(ideation)

====
